---- MODULE Spec2Model ----
(***************************************************************************)
(* Paper identity, uploaded-file lifecycle and ownership in the litxplore  *)
(* backend (backend/app).                                                  *)
(*                                                                         *)
(* Strings are sequences of tokens.  The reserved prefix 'upload_' is one  *)
(* token, every other token is one character.  The uploads directory and   *)
(* the temporary directory are sets of file names.                         *)
(*                                                                         *)
(* Spec follows one HTTP request at a time step by step (generate_review,  *)
(* chat_with_paper_stream, _fetch_paper, upload_pdf).  The requests that   *)
(* run at the same time in other workers are present through what they do  *)
(* to the shared uploads directory: ConcurrentUpload stores a file,        *)
(* ConcurrentCleanup removes files.                                        *)
(***************************************************************************)
EXTENDS Integers, Sequences, FiniteSets, TLC

VARIABLES uploads, tmp, req, db, dbreq, cache, settings, now, jwks_cache, consumed

\* the key-value cache, the configuration of the process, the clock and the
\* JWKSCache object of core/auth.py
cacheVars == <<cache, settings, now, jwks_cache>>

\* consumed is the history of the chats: the uploaded files that a chat stream
\* took up and finished with, its removal of the file not failing, and that
\* were not stored again since
vars == <<uploads, tmp, req, db, dbreq, cache, settings, now, jwks_cache, consumed>>

-----------------------------------------------------------------------------
(* Bounds *)

\* longest paper_ids list of a review request
MaxPaperIds == 2

\* longest answer of the model, in characters
MaxAnswerLen == 201

\* largest uploaded file, in chunks of 1 MiB
MaxChunks == 16

\* number of reviews saved in a run
MaxReviews == 2

\* the clock runs from 0 to MaxTime
MaxTime == 3

\* largest expire_time of cache_review
MaxTTL == 2

\* the clock of the JWKS cache runs over this many periods of its ttl
MaxHours == 2

-----------------------------------------------------------------------------
(* Strings *)

\* the reserved prefix 'upload_'
UPLOAD_PREFIX == "upload_"

\* content hashes of the PDFs that clients upload (sha256(content).hexdigest()[:10])
Hashes == {<<"a">>, <<"b">>}

\* the paper ids a client sends: uploaded papers, an arXiv paper, and an
\* upload marker whose hash has no file
PaperIdPool == {<<UPLOAD_PREFIX, "a">>, <<UPLOAD_PREFIX, "b">>, <<"x">>}

\* str.startswith('upload_')
startswith_upload(paper_id) ==
    Len(paper_id) >= 1 /\ paper_id[1] = UPLOAD_PREFIX

\* paper_id.replace('upload_', ''): every occurrence is removed
content_hash_of(paper_id) ==
    SelectSeq(paper_id, LAMBDA t : t # UPLOAD_PREFIX)

\* [pid for pid in paper_ids if pid.startswith('upload_')]
FilterUploaded(paper_ids) == SelectSeq(paper_ids, startswith_upload)

\* [pid for pid in paper_ids if not pid.startswith('upload_')]
FilterArxiv(paper_ids) ==
    SelectSeq(paper_ids, LAMBDA p : ~startswith_upload(p))

SeqsUpTo(S, n) == UNION {[1..k -> S] : k \in 0..n}

Range(s) == {s[i] : i \in 1..Len(s)}

-----------------------------------------------------------------------------
(* Error responses (utils/error_utils.py) *)

ErrorResponse(status_code, error_code, message) ==
    [kind |-> "error", status_code |-> status_code, code |-> error_code,
     message |-> message]

ValidationError(message) == ErrorResponse(422, "VALIDATION_ERROR", message)

NotFoundError(message) == ErrorResponse(404, "NOT_FOUND", message)

InternalError(message) == ErrorResponse(500, "INTERNAL_ERROR", message)

\* HTTPException(status_code=..., detail=<plain string>)
PlainHTTPException(status_code, detail) ==
    [kind |-> "error", status_code |-> status_code, code |-> "NONE",
     message |-> detail]

-----------------------------------------------------------------------------
(* cleanup_uploaded_pdfs *)

\* A mutant: the loop returns after the first file it removed.
cleanup_loop_first_only(paper_ids, files, fail) ==
    LET found == {i \in 1..Len(paper_ids) :
                    /\ startswith_upload(paper_ids[i])
                    /\ content_hash_of(paper_ids[i]) \in files}
    IN  IF found = {} THEN [files |-> files, error |-> FALSE]
        ELSE LET i == CHOOSE i \in found : \A j \in found : i <= j
                 hash == content_hash_of(paper_ids[i])
             IN  IF hash \in fail THEN [files |-> files, error |-> TRUE]
                 ELSE [files |-> files \ {hash}, error |-> FALSE]

\* The for loop of cleanup_uploaded_pdfs.  fail is the set of files whose
\* os.remove raises.  The try block encloses the whole loop, so the first
\* failing removal ends the loop.
RECURSIVE cleanup_loop(_, _, _)
cleanup_loop(paper_ids, files, fail) ==
    IF paper_ids = <<>> THEN [files |-> files, error |-> FALSE]
    ELSE LET paper_id == Head(paper_ids)
             hash == content_hash_of(paper_id)
         IN  IF startswith_upload(paper_id) /\ hash \in files
             THEN IF hash \in fail
                  THEN [files |-> files, error |-> TRUE]
                  ELSE cleanup_loop(Tail(paper_ids), files \ {hash}, fail)
             ELSE cleanup_loop(Tail(paper_ids), files, fail)

\* A mutant: the removal error is not caught and reaches the caller.
cleanup_uploaded_pdfs_reraises(paper_ids, files, fail) ==
    LET r == cleanup_loop(paper_ids, files, fail)
    IN  [files |-> r.files, failed |-> r.error, raised |-> r.error,
         result |-> IF r.error THEN "none" ELSE "completed"]

\* cleanup_uploaded_pdfs(paper_ids): the files left, whether a removal failed,
\* whether the call raised, and the cleanup_status it returned.
cleanup_uploaded_pdfs(paper_ids, files, fail) ==
    LET r == cleanup_loop(paper_ids, files, fail)
    IN  [files |-> r.files, failed |-> r.error, raised |-> FALSE,
         result |-> "completed"]

\* one call of cleanup_uploaded_pdfs(paper_ids), on its own; fail is the set
\* of files whose os.remove raises
CleanupUploadedPdfs(paper_ids, fail) ==
    LET c == cleanup_uploaded_pdfs(paper_ids, uploads, fail)
    IN  /\ uploads' = c.files
        /\ req' = [kind |-> "cleanup_uploaded_pdfs", pc |-> "done",
                   paper_ids |-> paper_ids, fail |-> fail,
                   before |-> uploads, after |-> c.files,
                   raised |-> c.raised, result |-> c.result]
        /\ UNCHANGED <<tmp, db, dbreq, cache, settings, now, jwks_cache, consumed>>

-----------------------------------------------------------------------------
(* The request under observation *)

Idle == [kind |-> "idle", pc |-> "idle"]

NoOutcome == [kind |-> "none"]

\* A mutant: the id is cut at its last 'v' (rsplit('v', 1)[0]).
base_id_last_v(paper_id) ==
    LET vs == {i \in 1..Len(paper_id) : paper_id[i] = "v"}
    IN  IF vs = {} THEN paper_id
        ELSE SubSeq(paper_id, 1, (CHOOSE i \in vs : \A j \in vs : j <= i) - 1)

\* paper_id.split('v')[0]
base_id(paper_id) ==
    LET vs == {i \in 1..Len(paper_id) : paper_id[i] = "v"}
    IN  IF vs = {} THEN paper_id
        ELSE SubSeq(paper_id, 1, (CHOOSE i \in vs : \A j \in vs : i <= j) - 1)

\* [base_id for paper_id in paper_ids]
RECURSIVE formatted_ids(_)
formatted_ids(paper_ids) ==
    IF paper_ids = <<>> THEN <<>>
    ELSE <<base_id(Head(paper_ids))>> \o formatted_ids(Tail(paper_ids))

ReviewResponse(review_text, papers) ==
    [kind |-> "ReviewResponse", status_code |-> 200, review |-> review_text,
     citations |-> papers]

\* what LangChainService.generate_review hands back, or that it raised
GenerateOutcomes == {"review text", "Error generating literature review.", "raise"}

\* the call model.generate_content(...) of generate_review: it returns the
\* text, it raises, or generate_review is left before it is made
ModelCalls == {"returns", "raises", "not made"}

\* LangChainService.generate_review, lines 212-234, for a non-empty list of
\* papers: the model's text with the references after it; every exception
\* of the try block is printed and the placeholder text is returned
langchain_generate_review(call) ==
    CASE call = "returns" -> "review text"
      [] call = "raises"  -> "Error generating literature review."
      [] OTHER            -> "raise"

-----------------------------------------------------------------------------
(* generate_review (api/v1/endpoints/review.py) *)

\* the request arrives; uploaded_ids is computed before the try block
ReviewStart(paper_ids) ==
    /\ req.kind = "idle"
    /\ req' = [kind |-> "review", pc |-> "validate",
               paper_ids |-> paper_ids,
               uploaded_ids |-> IF paper_ids # <<>> THEN FilterUploaded(paper_ids)
                                ELSE <<>>,
               papers |-> <<>>, i |-> 1,
               primary |-> NoOutcome, pending |-> NoOutcome,
               response |-> NoOutcome,
               cleanups |-> <<>>, rmFailed |-> FALSE, effects |-> {},
               dangling |-> FALSE, model_call |-> "not made"]
    /\ UNCHANGED <<uploads, tmp, db, dbreq, cacheVars, consumed>>

\* A mutant: the empty list is not rejected.
ReviewValidate_unchecked ==
    /\ req.kind = "review" /\ req.pc = "validate"
    /\ req' = [req EXCEPT !.pc = "arxiv"]
    /\ UNCHANGED <<uploads, tmp, db, dbreq, cacheVars, consumed>>

\* if not review_request.paper_ids: raise_validation_error(...)
ReviewValidate ==
    /\ req.kind = "review" /\ req.pc = "validate"
    /\ IF req.paper_ids = <<>>
       THEN req' = [req EXCEPT !.pc = "except_http",
                        !.primary = ValidationError("No paper IDs provided")]
       ELSE req' = [req EXCEPT !.pc = "arxiv"]
    /\ UNCHANGED <<uploads, tmp, db, dbreq, cacheVars, consumed>>

\* if arxiv_ids: papers.extend(await paper_service.get_papers_by_ids(arxiv_ids))
\* get_papers_by_ids turns every failure, an empty result included, into
\* HTTPException(500, "Failed to fetch papers: ...").
ReviewFetchArxiv ==
    /\ req.kind = "review" /\ req.pc = "arxiv"
    /\ LET arxiv_ids == FilterArxiv(req.paper_ids)
       IN  IF arxiv_ids = <<>>
           THEN req' = [req EXCEPT !.pc = "uploaded"]
           ELSE \E found \in BOOLEAN :
                  IF found
                  THEN req' = [req EXCEPT !.pc = "uploaded",
                                   !.papers = @ \o formatted_ids(arxiv_ids),
                                   !.effects = @ \cup {"arxiv_lookup"}]
                  ELSE req' = [req EXCEPT !.pc = "except_http",
                                   !.primary = PlainHTTPException(500, "Failed to fetch papers"),
                                   !.effects = @ \cup {"arxiv_lookup"}]
    /\ UNCHANGED <<uploads, tmp, db, dbreq, cacheVars, consumed>>

\* get_uploaded_papers: os.path.exists(pdf_path) for the next uploaded id;
\* an absent file is skipped (continue)
ReviewUploadedExists ==
    /\ req.kind = "review" /\ req.pc = "uploaded"
    /\ req.i <= Len(req.uploaded_ids)
    /\ LET hash == content_hash_of(req.uploaded_ids[req.i])
       IN  IF hash \in uploads
           THEN req' = [req EXCEPT !.pc = "metadata",
                            !.effects = @ \cup {"upload_lookup"}]
           ELSE req' = [req EXCEPT !.i = @ + 1, !.dangling = TRUE,
                            !.effects = @ \cup {"upload_lookup"}]
    /\ UNCHANGED <<uploads, tmp, db, dbreq, cacheVars, consumed>>

\* get_paper_metadata: PyPDFLoader(pdf_path).load(); every failure, the file
\* having gone since the existence check included, becomes HTTPException(500)
ReviewGetMetadata ==
    /\ req.kind = "review" /\ req.pc = "metadata"
    /\ LET paper_id == req.uploaded_ids[req.i]
           hash == content_hash_of(paper_id)
       IN  \E parses \in BOOLEAN :
             IF hash \in uploads /\ parses
             THEN req' = [req EXCEPT !.pc = "uploaded", !.i = @ + 1,
                              !.papers = Append(@, <<UPLOAD_PREFIX>> \o hash)]
             ELSE req' = [req EXCEPT !.pc = "except_http",
                              !.dangling = @ \/ (hash \notin uploads),
                              !.primary = PlainHTTPException(500,
                                   "Failed to retrieve paper metadata")]
    /\ UNCHANGED <<uploads, tmp, db, dbreq, cacheVars, consumed>>

\* if not papers: raise_not_found(...)
ReviewCheckPapers ==
    /\ req.kind = "review" /\ req.pc = "uploaded"
    /\ req.i > Len(req.uploaded_ids)
    /\ IF req.papers = <<>>
       THEN req' = [req EXCEPT !.pc = "except_http",
                        !.primary = NotFoundError("No papers found with the provided IDs")]
       ELSE req' = [req EXCEPT !.pc = "generate"]
    /\ UNCHANGED <<uploads, tmp, db, dbreq, cacheVars, consumed>>

\* review_text = await langchain_service.generate_review(papers, topic)
ReviewGenerate ==
    /\ req.kind = "review" /\ req.pc = "generate"
    /\ \E call \in ModelCalls :
         LET out == langchain_generate_review(call)
         IN  /\ out \in GenerateOutcomes
             /\ IF out = "raise"
                THEN req' = [req EXCEPT !.pc = "except_other",
                                 !.primary = [kind |-> "exception"],
                                 !.model_call = call,
                                 !.effects = @ \cup {"model_call"}]
                ELSE req' = [req EXCEPT !.pc = "cleanup",
                                 !.primary = ReviewResponse(out, req.papers),
                                 !.model_call = call,
                                 !.effects = @ \cup {"model_call"}]
    /\ UNCHANGED <<uploads, tmp, db, dbreq, cacheVars, consumed>>

\* if uploaded_ids: try: await cleanup_uploaded_pdfs(uploaded_ids)
\*                  except Exception: logging.error(...)
\* then the branch leaves with `leaving` (a return value or an exception),
\* which reaches the caller once the finally block is through
CleanupThen(leaving, next_pc) ==
    IF req.uploaded_ids = <<>>
    THEN /\ req' = [req EXCEPT !.pc = next_pc, !.pending = leaving,
                         !.response = IF next_pc = "done" THEN leaving ELSE @]
         /\ UNCHANGED uploads
    ELSE \E fail \in SUBSET Hashes :
           LET c == cleanup_uploaded_pdfs(req.uploaded_ids, uploads, fail)
           IN  /\ uploads' = c.files
               /\ req' = [req EXCEPT !.pc = next_pc, !.pending = leaving,
                               !.response = IF next_pc = "done" THEN leaving ELSE @,
                               !.cleanups = Append(@, [raised |-> c.raised,
                                                       result |-> c.result]),
                               !.rmFailed = @ \/ c.failed,
                               !.effects = @ \cup (IF c.files # uploads
                                                   THEN {"file_delete"} ELSE {})]

\* lines 70-82: cleanup, then return ReviewResponse(...)
ReviewCleanupAndReturn ==
    /\ req.kind = "review" /\ req.pc = "cleanup"
    /\ CleanupThen(req.primary, "finally")
    /\ UNCHANGED <<tmp, db, dbreq, cacheVars, consumed>>

\* except HTTPException as he: cleanup, then raise he
ReviewExceptHTTP ==
    /\ req.kind = "review" /\ req.pc = "except_http"
    /\ CleanupThen(req.primary, "finally")
    /\ UNCHANGED <<tmp, db, dbreq, cacheVars, consumed>>

\* except Exception as e: cleanup, then raise_internal_error(...)
ReviewExceptOther ==
    /\ req.kind = "review" /\ req.pc = "except_other"
    /\ CleanupThen(InternalError("Error generating review"), "finally")
    /\ UNCHANGED <<tmp, db, dbreq, cacheVars, consumed>>

\* finally: one last cleanup; the pending return value or exception then
\* reaches the caller
ReviewFinally ==
    /\ req.kind = "review" /\ req.pc = "finally"
    /\ CleanupThen(req.pending, "done")
    /\ UNCHANGED <<tmp, db, dbreq, cacheVars, consumed>>

-----------------------------------------------------------------------------
(* chat_with_paper_stream (services/paper_service.py) *)

\* chunk_size = 100
chunk_size == 100

\* result["answer"]: the characters of an answer of n characters
Answer(n) == [k \in 1..n |-> k]

\* result["source_documents"] as the sources of the first fragment
SourcePages == <<[page |-> 0], [page |-> 3]>>

Fragment(content, sources) == [content |-> content, sources |-> sources]

\* the file of tempfile.NamedTemporaryFile(suffix=".pdf", delete=False)
CHAT_TEMP == "chat_tmp.pdf"

Min(a, b) == IF a <= b THEN a ELSE b

\* A mutant: the existence check is missing.
ChatBegin_unchecked(paper_id, files) ==
    [kind |-> "chat", pc |-> IF startswith_upload(paper_id) THEN "copy" ELSE "fetch",
     paper_id |-> paper_id, temp_pdf_path |-> "None",
     uploaded_file_path |-> "None", fragments |-> <<>>, failed |-> "none",
     ended |-> "running", temp_created |-> FALSE, unlink_failed |-> FALSE,
     answer |-> <<>>, i |-> 0, effects |-> {}, dangling |-> FALSE,
     remove_failed |-> FALSE]

\* lines 169-185: the generator starts; for an 'upload_' id the file must
\* exist, else one error fragment is yielded and the generator returns
ChatBegin(paper_id, files) ==
    LET r == [kind |-> "chat", pc |-> "fetch",
              paper_id |-> paper_id, temp_pdf_path |-> "None",
              uploaded_file_path |-> "None", fragments |-> <<>>, failed |-> "none",
              ended |-> "running", temp_created |-> FALSE, unlink_failed |-> FALSE,
              answer |-> <<>>, i |-> 0, effects |-> {}, dangling |-> FALSE,
     remove_failed |-> FALSE]
    IN  IF startswith_upload(paper_id)
        THEN IF content_hash_of(paper_id) \notin files
             THEN [r EXCEPT !.pc = "error_yielded", !.failed = "fetch",
                       !.dangling = TRUE,
                       !.fragments = <<Fragment("Error: Uploaded PDF file not found", <<>>)>>]
             ELSE [r EXCEPT !.pc = "copy"]
        ELSE r

\* file_present remembers whether uploads/<hash>.pdf existed when the
\* request resolved its id
ChatStart(paper_id) ==
    /\ req.kind = "idle"
    /\ req' = [f \in DOMAIN ChatBegin(paper_id, uploads) \cup {"file_present"} |->
                 IF f = "file_present"
                 THEN startswith_upload(paper_id)
                      /\ (SubSeq(paper_id, 2, Len(paper_id)) \in uploads)
                 ELSE ChatBegin(paper_id, uploads)[f]]
    /\ UNCHANGED <<uploads, tmp, db, dbreq, cacheVars, consumed>>

\* A mutant: there is no catch-all handler around the copy.
ChatCopyUpload_unhandled ==
    /\ req.kind = "chat" /\ req.pc = "copy"
    /\ LET hash == content_hash_of(req.paper_id)
       IN  \E io_ok \in BOOLEAN :
             /\ tmp' = tmp \cup {CHAT_TEMP}
             /\ IF hash \in uploads /\ io_ok
                THEN req' = [req EXCEPT !.pc = "process", !.temp_created = TRUE,
                                 !.temp_pdf_path = CHAT_TEMP,
                                 !.uploaded_file_path = hash]
                ELSE req' = [req EXCEPT !.pc = "finally", !.temp_created = TRUE,
                                 !.failed = "fetch", !.ended = "raised"]
    /\ UNCHANGED <<uploads, db, dbreq, cacheVars, consumed>>

\* lines 187-195: the temporary file is created, the uploaded file is read
\* into it, and only then temp_pdf_path is assigned.  A failing read (the
\* file has gone since the existence check) or write is caught by the outer
\* except Exception, which yields one error fragment.
ChatCopyUpload ==
    /\ req.kind = "chat" /\ req.pc = "copy"
    /\ LET hash == content_hash_of(req.paper_id)
       IN  \E io_ok \in BOOLEAN :
             /\ tmp' = tmp \cup {CHAT_TEMP}
             /\ IF hash \in uploads /\ io_ok
                THEN req' = [req EXCEPT !.pc = "process", !.temp_created = TRUE,
                                 !.temp_pdf_path = CHAT_TEMP,
                                 !.uploaded_file_path = hash]
                ELSE req' = [req EXCEPT !.pc = "error_yielded", !.temp_created = TRUE,
                                 !.failed = "fetch",
                                 !.dangling = (hash \notin uploads),
                                 !.fragments = Append(@, Fragment("Error: ...", <<>>))]
    /\ UNCHANGED <<uploads, db, dbreq, cacheVars, consumed>>

\* lines 197-214: the arXiv search and the download; a failure yields one
\* error fragment and returns.  The temporary file exists from
\* NamedTemporaryFile on; temp_pdf_path is assigned after the write.
ChatFetchArxiv ==
    /\ req.kind = "chat" /\ req.pc = "fetch"
    /\ \E out \in {"ok", "fetch fails", "write fails"} :
         /\ tmp' = IF out = "fetch fails" THEN tmp ELSE tmp \cup {CHAT_TEMP}
         /\ IF out = "ok"
            THEN req' = [req EXCEPT !.pc = "process", !.temp_created = TRUE,
                             !.temp_pdf_path = CHAT_TEMP,
                             !.effects = @ \cup {"arxiv_lookup"}]
            ELSE req' = [req EXCEPT !.pc = "error_yielded",
                             !.temp_created = (out = "write fails"),
                             !.failed = "fetch",
                             !.effects = @ \cup {"arxiv_lookup"},
                             !.fragments = Append(@, Fragment("Error fetching paper: ...", <<>>))]
    /\ UNCHANGED <<uploads, db, dbreq, cacheVars, consumed>>

\* the lengths of the answers the model gives: up to MaxAnswerLen, those
\* at, one under and one over a multiple of chunk_size
AnswerLengths ==
    {n \in 0..MaxAnswerLen : n % chunk_size \in {0, 1, chunk_size - 1}}

ProcessOutcomes == {"extract fails", "embed fails", "model fails", "answer"}

\* lines 216-257 and 271-276: load the PDF, split, embed, build the chain and
\* await the model; a failure of any of them yields one error fragment
ChatProcess ==
    /\ req.kind = "chat" /\ req.pc = "process"
    /\ \E out \in ProcessOutcomes, n \in AnswerLengths :
         IF out = "answer" /\ req.temp_pdf_path # "None"
         THEN req' = [req EXCEPT !.pc = "stream", !.answer = Answer(n), !.i = 0,
                          !.effects = @ \cup {"model_call"}]
         ELSE /\ n = 0
              /\ req' = [req EXCEPT !.pc = "error_yielded",
                              !.failed = IF out = "answer" THEN "extract fails" ELSE out,
                              !.fragments = Append(@,
                                  Fragment("Error processing document: ...", <<>>))]
    /\ UNCHANGED <<uploads, tmp, db, dbreq, cacheVars, consumed>>

\* A mutant: the slice is response[i:i + chunk_size + 1].
ChatYieldFragment_overlapping ==
    /\ req.kind = "chat" /\ req.pc = "stream"
    /\ IF req.i < Len(req.answer)
       THEN req' = [req EXCEPT !.pc = "yielded",
                        !.fragments = Append(@,
                            Fragment(SubSeq(req.answer, req.i + 1,
                                            Min(req.i + chunk_size + 1, Len(req.answer))),
                                     IF req.i = 0 THEN SourcePages ELSE <<>>))]
       ELSE req' = [req EXCEPT !.pc = "finally", !.ended = "normal"]
    /\ UNCHANGED <<uploads, tmp, db, dbreq, cacheVars, consumed>>

\* lines 260-268: for i in range(0, len(response), chunk_size): yield {...}
ChatYieldFragment ==
    /\ req.kind = "chat" /\ req.pc = "stream"
    /\ IF req.i < Len(req.answer)
       THEN req' = [req EXCEPT !.pc = "yielded",
                        !.fragments = Append(@,
                            Fragment(SubSeq(req.answer, req.i + 1,
                                            Min(req.i + chunk_size, Len(req.answer))),
                                     IF req.i = 0 THEN SourcePages ELSE <<>>))]
       ELSE req' = [req EXCEPT !.pc = "finally", !.ended = "normal"]
    /\ UNCHANGED <<uploads, tmp, db, dbreq, cacheVars, consumed>>

\* the consumer asks for the next fragment: await asyncio.sleep(0.05) starts
ChatResume ==
    /\ req.kind = "chat" /\ req.pc = "yielded"
    /\ req' = [req EXCEPT !.pc = "sleep"]
    /\ UNCHANGED <<uploads, tmp, db, dbreq, cacheVars, consumed>>

\* the sleep is over: the next round of the loop
ChatSleepOver ==
    /\ req.kind = "chat" /\ req.pc = "sleep"
    /\ req' = [req EXCEPT !.pc = "stream", !.i = @ + chunk_size]
    /\ UNCHANGED <<uploads, tmp, db, dbreq, cacheVars, consumed>>

\* the consumer asks for more after an error fragment: the generator returns
\* (lines 185, 214) or falls out of the except block (lines 276, 283)
ChatErrorResumed ==
    /\ req.kind = "chat" /\ req.pc = "error_yielded"
    /\ req' = [req EXCEPT !.pc = "finally", !.ended = "normal"]
    /\ UNCHANGED <<uploads, tmp, db, dbreq, cacheVars, consumed>>

\* the client disconnects: the generator is closed (GeneratorExit at the
\* yield, CancelledError at the sleep); no except Exception catches either
ChatConsumerCloses ==
    /\ req.kind = "chat" /\ req.pc \in {"yielded", "sleep", "error_yielded"}
    /\ req' = [req EXCEPT !.pc = "finally", !.ended = "closed"]
    /\ UNCHANGED <<uploads, tmp, db, dbreq, cacheVars, consumed>>

\* A mutant: the finally block removes the temporary file only.
ChatFinally_keeps_upload ==
    /\ req.kind = "chat" /\ req.pc = "finally"
    /\ \E unlink_ok \in BOOLEAN :
         LET has_temp == req.temp_pdf_path # "None" /\ req.temp_pdf_path \in tmp
         IN  /\ (~has_temp => unlink_ok)
             /\ tmp' = IF has_temp /\ unlink_ok THEN tmp \ {req.temp_pdf_path} ELSE tmp
             /\ uploads' = uploads
             /\ req' = [req EXCEPT !.pc = "done", !.unlink_failed = ~unlink_ok]
             /\ consumed' = IF req.uploaded_file_path # "None"
                            THEN consumed \cup {req.uploaded_file_path}
                            ELSE consumed
    /\ UNCHANGED <<db, dbreq, cacheVars>>

\* lines 284-298: finally: unlink the temporary file if temp_pdf_path is set
\* and the file exists, remove the uploaded file if uploaded_file_path is set
\* and the file exists; a failing removal is printed and swallowed
ChatFinally ==
    /\ req.kind = "chat" /\ req.pc = "finally"
    /\ \E unlink_ok \in BOOLEAN, remove_ok \in BOOLEAN :
         LET has_temp == req.temp_pdf_path # "None" /\ req.temp_pdf_path \in tmp
             has_upload == req.uploaded_file_path # "None"
                           /\ req.uploaded_file_path \in uploads
         IN  /\ (~has_temp => unlink_ok)
             /\ (~has_upload => remove_ok)
             /\ tmp' = IF has_temp /\ unlink_ok THEN tmp \ {req.temp_pdf_path} ELSE tmp
             /\ uploads' = IF has_upload /\ remove_ok
                           THEN uploads \ {req.uploaded_file_path} ELSE uploads
             /\ req' = [req EXCEPT !.pc = "done",
                             !.unlink_failed = ~unlink_ok,
                             !.remove_failed = has_upload /\ ~remove_ok,
                             !.effects = @ \cup (IF has_upload /\ remove_ok
                                                 THEN {"file_delete"} ELSE {})]
             /\ consumed' = IF req.uploaded_file_path # "None"
                               /\ ~(has_upload /\ ~remove_ok)
                            THEN consumed \cup {req.uploaded_file_path}
                            ELSE consumed
    /\ UNCHANGED <<db, dbreq, cacheVars>>

ChatNext ==
    \/ \E paper_id \in PaperIdPool : ChatStart(paper_id)
    \/ ChatCopyUpload
    \/ ChatFetchArxiv
    \/ ChatProcess
    \/ ChatYieldFragment
    \/ ChatResume
    \/ ChatSleepOver
    \/ ChatErrorResumed
    \/ ChatConsumerCloses
    \/ ChatFinally

-----------------------------------------------------------------------------
(* AnalysisService._fetch_paper (services/analysis_service.py) *)

\* lines 141-150 and 165-197: an 'upload_' id whose file does not exist is
\* HTTPException(404); an arXiv id is fetched (found, not found, or a failure)
FetchPaperStart(paper_id) ==
    /\ req.kind = "idle"
    /\ LET r == [kind |-> "fetch_paper", pc |-> "read", paper_id |-> paper_id,
                 outcome |-> NoOutcome, dangling |-> FALSE]
       IN  IF startswith_upload(paper_id)
           THEN IF content_hash_of(paper_id) \notin uploads
                THEN req' = [r EXCEPT !.pc = "done", !.dangling = TRUE,
                                 !.outcome = PlainHTTPException(404, "Uploaded paper not found")]
                ELSE req' = r
           ELSE \E out \in {"found", "not found", "fails"} :
                  req' = [r EXCEPT !.pc = "done",
                              !.outcome =
                                 IF out = "found" THEN [kind |-> "paper", paper_id |-> paper_id]
                                 ELSE IF out = "not found"
                                      THEN PlainHTTPException(404, "Paper not found on arXiv")
                                      ELSE PlainHTTPException(500, "Failed to fetch paper")]
    /\ UNCHANGED <<uploads, tmp, db, dbreq, cacheVars, consumed>>

\* lines 152-164: with open(pdf_path, "rb") as f: pdf_bytes = f.read();
\* nothing catches the FileNotFoundError of a file that has gone meanwhile
FetchPaperRead ==
    /\ req.kind = "fetch_paper" /\ req.pc = "read"
    /\ IF content_hash_of(req.paper_id) \in uploads
       THEN req' = [req EXCEPT !.pc = "done",
                        !.outcome = [kind |-> "paper", paper_id |-> req.paper_id]]
       ELSE req' = [req EXCEPT !.pc = "done", !.dangling = TRUE,
                        !.outcome = [kind |-> "exception", type |-> "FileNotFoundError"]]
    /\ UNCHANGED <<uploads, tmp, db, dbreq, cacheVars, consumed>>

FetchPaperNext ==
    \/ \E paper_id \in PaperIdPool : FetchPaperStart(paper_id)
    \/ FetchPaperRead

-----------------------------------------------------------------------------
(* upload_pdf (api/v1/endpoints/papers.py) *)

\* MAX_FILE_SIZE = 15 * 1024 * 1024
MAX_FILE_SIZE == 15 * 1024 * 1024

\* await file.read(1024 * 1024)
READ_CHUNK == 1024 * 1024

\* await file.read(2048)
HEAD_READ == 2048

\* b'%PDF-'
PDF_MAGIC == <<"%", "P", "D", "F", "-">>

\* Bytes are the first eight bytes and the length: [head, len].
Bytes(head, len) == [head |-> SubSeq(head, 1, Min(Len(head), Min(8, len))), len |-> len]

\* content[:n] of the bytes read from position 0
Prefix(content, n) == Bytes(content.head, Min(content.len, n))

\* bytes.startswith(b'%PDF-')
startswith_magic(header) ==
    Len(header.head) >= Len(PDF_MAGIC)
    /\ SubSeq(header.head, 1, Len(PDF_MAGIC)) = PDF_MAGIC

\* A mutant: the length test is missing.
is_valid_pdf_no_length(content) == startswith_magic(Prefix(content, 8))

\* is_valid_pdf(content)
is_valid_pdf(content) ==
    IF content.len < 8 THEN FALSE
    ELSE startswith_magic(Prefix(content, 8))

\* str.lower() on the characters of the file names
lower(str) ==
    [k \in 1..Len(str) |->
        CASE str[k] = "P" -> "p" [] str[k] = "D" -> "d" [] str[k] = "F" -> "f"
          [] OTHER -> str[k]]

\* str.endswith('.pdf')
endswith_pdf(str) ==
    Len(str) >= 4 /\ SubSeq(str, Len(str) - 3, Len(str)) = <<".", "p", "d", "f">>

\* hashlib.sha256(content).hexdigest()[:10]: the digest is a function of
\* the bytes, carried with them
sha256_prefix(file) == file.digest

UPLOAD_TEMP == "temp_upload.pdf"

Filenames ==
    {<<>>, <<"a", ".", "p", "d", "f">>, <<"a", ".", "P", "D", "F">>,
     <<"a", ".", "t", "x", "t">>, <<"p", "d", "f">>}

Heads ==
    {<<"%", "P", "D", "F", "-", "1", ".", "4">>,
     <<"%", "p", "d", "f", "-", "1", ".", "4">>,
     <<"G", "I", "F", "8", "9", "a", "x", "x">>}

\* sizes around the eight-byte header, the first read, the chunk and the ceiling
FileSizes ==
    {0, 4, 5, 7, 8, 9, HEAD_READ, HEAD_READ + 1}
    \cup {k * READ_CHUNK + d : k \in 1..MaxChunks, d \in {-1, 0, 1}}

UploadFiles ==
    {[filename |-> fn, content |-> Bytes(h, n), digest |-> dg] :
        fn \in Filenames, h \in Heads, n \in FileSizes, dg \in Hashes}

\* lines 117-130: the file name tests, before the try block
UploadStart(file) ==
    /\ req.kind = "idle"
    /\ LET r == [kind |-> "upload", pc |-> "read_head", file |-> file,
                 file_size |-> 0, pos |-> 0, written |-> 0, reads |-> 0,
                 temp_file_path |-> "None", processed |-> FALSE,
                 pending |-> NoOutcome, response |-> NoOutcome,
                 unlink_failed |-> FALSE, effects |-> {}]
       IN  IF file.filename = <<>>
           THEN req' = [r EXCEPT !.pc = "done",
                            !.response = ValidationError("No file provided")]
           ELSE IF ~endswith_pdf(lower(file.filename))
                THEN req' = [r EXCEPT !.pc = "done",
                                 !.response = ValidationError("File must be a PDF")]
                ELSE req' = r
    /\ UNCHANGED <<uploads, tmp, db, dbreq, cacheVars, consumed>>

\* lines 134-146: content_start = await file.read(2048); is_valid_pdf
UploadReadHead ==
    /\ req.kind = "upload" /\ req.pc = "read_head"
    /\ LET content_start == Prefix(req.file.content, HEAD_READ)
       IN  IF ~is_valid_pdf(content_start)
           THEN req' = [req EXCEPT !.pc = "finally",
                            !.pending = ValidationError("Invalid file content")]
           ELSE req' = [req EXCEPT !.pc = "open_temp"]
    /\ UNCHANGED <<uploads, tmp, db, dbreq, cacheVars, consumed>>

\* lines 148-151: temp_file_path = /tmp/temp_upload_<random>.pdf; open(..., 'wb')
UploadOpenTemp ==
    /\ req.kind = "upload" /\ req.pc = "open_temp"
    /\ tmp' = tmp \cup {UPLOAD_TEMP}
    /\ req' = [req EXCEPT !.pc = "read_chunk", !.temp_file_path = UPLOAD_TEMP]
    /\ UNCHANGED <<uploads, db, dbreq, cacheVars, consumed>>

\* A mutant: the chunk is written before the size is tested, and the test
\* is made after the loop only.
UploadReadChunk_late_check ==
    /\ req.kind = "upload" /\ req.pc = "read_chunk"
    /\ LET n == Min(READ_CHUNK, req.file.content.len - req.pos)
       IN  IF n = 0
           THEN IF req.file_size > MAX_FILE_SIZE
                THEN req' = [req EXCEPT !.pc = "finally",
                                 !.pending = ValidationError("File size exceeds the maximum")]
                ELSE req' = [req EXCEPT !.pc = "process"]
           ELSE req' = [req EXCEPT !.file_size = @ + n, !.reads = @ + 1,
                            !.pos = @ + n, !.written = @ + n]
    /\ UNCHANGED <<uploads, tmp, db, dbreq, cacheVars, consumed>>

\* lines 152-162: one round of the while loop: read up to 1 MiB, add it to
\* file_size, raise the validation error once file_size exceeds
\* MAX_FILE_SIZE, else write the chunk
UploadReadChunk ==
    /\ req.kind = "upload" /\ req.pc = "read_chunk"
    /\ LET n == Min(READ_CHUNK, req.file.content.len - req.pos)
       IN  IF n = 0
           THEN req' = [req EXCEPT !.pc = "process"]
           ELSE IF req.file_size + n > MAX_FILE_SIZE
                THEN req' = [req EXCEPT !.pc = "finally", !.file_size = @ + n,
                                 !.reads = @ + 1, !.pos = @ + n,
                                 !.pending = ValidationError("File size exceeds the maximum")]
                ELSE req' = [req EXCEPT !.file_size = @ + n, !.reads = @ + 1,
                                 !.pos = @ + n, !.written = @ + n]
    /\ UNCHANGED <<uploads, tmp, db, dbreq, cacheVars, consumed>>

\* lines 164-177 and process_uploaded_pdf: the PDF is parsed and described
\* by the model, then written to uploads/<hash>.pdf; every failure becomes
\* HTTPException(500, "Error processing PDF: ...") and nothing is written
UploadProcess ==
    /\ req.kind = "upload" /\ req.pc = "process"
    /\ \E ok \in BOOLEAN :
         IF ok
         THEN LET content_hash == sha256_prefix(req.file)
              IN  /\ uploads' = uploads \cup {content_hash}
                  /\ req' = [req EXCEPT !.pc = "finally", !.processed = TRUE,
                                  !.effects = @ \cup {"file_write"},
                                  !.pending = [kind |-> "Paper", status_code |-> 200,
                                               id |-> <<UPLOAD_PREFIX>> \o content_hash,
                                               url |-> <<"/uploads/">> \o content_hash
                                                         \o <<".pdf">>]]
         ELSE /\ uploads' = uploads
              /\ req' = [req EXCEPT !.pc = "finally", !.processed = TRUE,
                              !.pending = PlainHTTPException(500, "Error processing PDF")]
    /\ consumed' = consumed \ uploads'
    /\ UNCHANGED <<tmp, db, dbreq, cacheVars>>

\* lines 178-184: finally: unlink the temporary file if it exists; a failing
\* unlink is passed over
UploadFinally ==
    /\ req.kind = "upload" /\ req.pc = "finally"
    /\ \E unlink_ok \in BOOLEAN :
         LET has_temp == req.temp_file_path # "None" /\ req.temp_file_path \in tmp
         IN  /\ (~has_temp => unlink_ok)
             /\ tmp' = IF has_temp /\ unlink_ok THEN tmp \ {req.temp_file_path} ELSE tmp
             /\ req' = [req EXCEPT !.pc = "done", !.response = req.pending,
                             !.unlink_failed = ~unlink_ok]
    /\ UNCHANGED <<uploads, db, dbreq, cacheVars, consumed>>

UploadNext ==
    \/ \E file \in UploadFiles : UploadStart(file)
    \/ UploadReadHead
    \/ UploadOpenTemp
    \/ UploadReadChunk
    \/ UploadProcess
    \/ UploadFinally

-----------------------------------------------------------------------------
(* Requests running at the same time, seen through the uploads directory *)

\* process_uploaded_pdf of another request writes uploads/<hash>.pdf
ConcurrentUpload(hash) ==
    /\ hash \notin uploads
    /\ uploads' = uploads \cup {hash}
    /\ consumed' = consumed \ {hash}
    /\ UNCHANGED <<tmp, req, db, dbreq, cacheVars>>

\* cleanup_uploaded_pdfs of another request removes uploads/<hash>.pdf
ConcurrentCleanup(hash) ==
    /\ hash \in uploads
    /\ uploads' = cleanup_uploaded_pdfs(<<(<<UPLOAD_PREFIX>> \o hash)>>, uploads, {}).files
    /\ UNCHANGED <<tmp, req, db, dbreq, cacheVars, consumed>>

\* the response has been sent; the next request is observed (a temporary
\* file left behind is outside the model from here on)
RequestEnds ==
    /\ req.pc = "done"
    /\ req' = Idle
    /\ tmp' = {}
    /\ UNCHANGED <<uploads, db, dbreq, cacheVars, consumed>>

-----------------------------------------------------------------------------
(* The relational store: tasks and saved reviews, each row owned by a user *)

Users == {"A", "B"}

\* task ids (UUID strings) and review ids (autoincrement integers)
TaskIds == {"t1", "t2"}

ReviewIds == 1..MaxReviews

\* TaskStatus (models/task.py)
TaskStatus == {"pending", "running", "completed", "failed"}

\* started: the ids of the tasks whose start is in flight
EmptyDb == [tasks |-> {}, started |-> {}, reviews |-> {}, next_review_id |-> 1,
            users |-> {}]

NoRequest == [op |-> "none"]

\* None, where a task row is expected
NoTask == [id |-> "None"]

\* TaskService.create_task: a new row, status pending
ts_create_task(d, task_id, user) ==
    [d EXCEPT !.tasks = @ \cup {[id |-> task_id, user_id |-> user, status |-> "pending",
                                 result_data |-> "None", error_message |-> "None"]}]

\* TaskService.get_task_status(db, task_id, user): the row with that id that
\* belongs to the user, or None
ts_get_task_status(d, task_id, user) ==
    LET rows == {t \in d.tasks : t.id = task_id /\ t.user_id = user}
    IN  IF rows = {} THEN NoTask ELSE CHOOSE t \in rows : TRUE

\* TaskService.cancel_task(db, task_id, user): False unless the user has a
\* pending or running task of that id; the status enum has no cancelled
\* value, a cancelled task is stored as failed
ts_cancel_task(d, task_id, user) ==
    LET task == ts_get_task_status(d, task_id, user)
    IN  IF task = NoTask \/ task.status \notin {"pending", "running"}
        THEN [db |-> d, success |-> FALSE]
        ELSE [db |-> [d EXCEPT !.tasks = (@ \ {task}) \cup
                          {[task EXCEPT !.status = "failed",
                                        !.error_message = "Task cancelled"]}],
              success |-> TRUE]

\* TaskService.to_response(task)
to_response(task) ==
    [kind |-> "TaskResponse", status_code |-> 200, id |-> task.id,
     status |-> task.status, error_message |-> task.error_message,
     result_data |-> task.result_data]

\* get_task_status (endpoints/tasks.py): 404 "Task not found" for None
get_task_status(d, user, task_id) ==
    LET task == ts_get_task_status(d, task_id, user)
    IN  [db |-> d,
         response |-> IF task = NoTask THEN PlainHTTPException(404, "Task not found")
                      ELSE to_response(task)]

\* A mutant: the endpoint does not look at what the service reports.
cancel_task_always_ok(d, user, task_id) ==
    [db |-> ts_cancel_task(d, task_id, user).db,
     response |-> [kind |-> "message", status_code |-> 200,
                   message |-> "Task cancelled successfully"]]

\* cancel_task (endpoints/tasks.py): 400 unless the service reports success
cancel_task(d, user, task_id) ==
    LET r == ts_cancel_task(d, task_id, user)
    IN  [db |-> r.db,
         response |-> IF ~r.success
                      THEN PlainHTTPException(400,
                             "Task cannot be cancelled (not found or already completed)")
                      ELSE [kind |-> "message", status_code |-> 200,
                            message |-> "Task cancelled successfully"]]

\* save_review (endpoints/review.py): a new row owned by current_user
save_review(d, user) ==
    [db |-> [d EXCEPT !.reviews = @ \cup {[id |-> d.next_review_id, user_id |-> user]},
                      !.next_review_id = @ + 1],
     response |-> [kind |-> "message", status_code |-> 200,
                   message |-> "Review saved successfully",
                   review_id |-> d.next_review_id]]

\* ids in descending order (order_by(Review.created_at.desc()))
RECURSIVE Descending(_)
Descending(ids) ==
    IF ids = {} THEN <<>>
    ELSE LET m == CHOOSE i \in ids : \A j \in ids : j <= i
         IN  <<m>> \o Descending(ids \ {m})

\* get_review_history: the rows with Review.user_id == current_user.id
get_review_history(d, user) ==
    [db |-> d,
     response |-> [kind |-> "history", status_code |-> 200,
                   reviews |-> Descending({r.id : r \in {x \in d.reviews : x.user_id = user}})]]

\* A mutant: the query filters on the review id only.
delete_review_any_owner(d, user, review_id) ==
    LET rows == {r \in d.reviews : r.id = review_id}
    IN  IF rows = {}
        THEN [db |-> d,
              response |-> NotFoundError("Review not found")]
        ELSE [db |-> [d EXCEPT !.reviews = @ \ rows],
              response |-> [kind |-> "message", status_code |-> 200,
                            message |-> "Review deleted successfully"]]

\* delete_review: the row with Review.id == review_id and
\* Review.user_id == current_user.id, else 404 NOT_FOUND "Review not found"
delete_review(d, user, review_id) ==
    LET rows == {r \in d.reviews : r.id = review_id /\ r.user_id = user}
    IN  IF rows = {}
        THEN [db |-> d, response |-> NotFoundError("Review not found")]
        ELSE [db |-> [d EXCEPT !.reviews = @ \ rows],
              response |-> [kind |-> "message", status_code |-> 200,
                            message |-> "Review deleted successfully"]]

\* the rows of d that belong to other users than user
RowsOfOthers(d, user) ==
    [tasks |-> {t \in d.tasks : t.user_id # user},
     reviews |-> {r \in d.reviews : r.user_id # user}]

\* one request against the store: its result is kept in dbreq, with whether
\* the id named a row of another user and whether rows of others changed
Served(op, user, id, foreign, r) ==
    /\ db' = r.db
    /\ dbreq' = [op |-> op, user |-> user, id |-> id, foreign |-> foreign,
                 response |-> r.response,
                 others_changed |-> RowsOfOthers(r.db, user) # RowsOfOthers(db, user)]
    /\ UNCHANGED <<uploads, tmp, req, cacheVars, consumed>>

CreateTask(user, task_id) ==
    /\ \A t \in db.tasks : t.id # task_id
    /\ Served("create_task", user, task_id, FALSE,
              [db |-> ts_create_task(db, task_id, user),
               response |-> [kind |-> "message", status_code |-> 200]])

\* the row of task_id (ids are primary keys)
TaskRow(d, task_id) == CHOOSE t \in d.tasks : t.id = task_id

\* start(task_id, ...) begins: a pending task becomes running
ts_start(d, task_id) ==
    LET t == TaskRow(d, task_id)
    IN  [d EXCEPT !.tasks = (@ \ {t}) \cup {[t EXCEPT !.status = "running"]},
                  !.started = @ \cup {task_id}]

\* A mutant: the result is stored and the error message is left as it is.
ts_start_completes_keeps_error(d, task_id) ==
    LET t == TaskRow(d, task_id)
    IN  [d EXCEPT !.tasks = (@ \ {t}) \cup
                     {[t EXCEPT !.status = "completed", !.result_data = "review"]},
                  !.started = @ \ {task_id}]

\* start completes normally: status completed with the result payload; a
\* cancellation recorded meanwhile is overwritten
ts_start_completes(d, task_id) ==
    LET t == TaskRow(d, task_id)
    IN  [d EXCEPT !.tasks = (@ \ {t}) \cup
                     {[t EXCEPT !.status = "completed", !.result_data = "review",
                                !.error_message = "None"]},
                  !.started = @ \ {task_id}]

\* start raises: status failed with the stringified error
ts_start_raises(d, task_id) ==
    LET t == TaskRow(d, task_id)
    IN  [d EXCEPT !.tasks = (@ \ {t}) \cup
                     {[t EXCEPT !.status = "failed", !.error_message = "error",
                                !.result_data = "None"]},
                  !.started = @ \ {task_id}]

\* a step of the orchestrator on a task, recorded like a request of its owner
Orchestrated(op, task_id, d) ==
    Served(op, TaskRow(db, task_id).user_id, task_id, FALSE,
           [db |-> d,
            response |-> [kind |-> "orchestrator", status_code |-> 0,
                          was |-> TaskRow(db, task_id).status]])

StartTask(task_id) ==
    /\ \E t \in db.tasks : t.id = task_id /\ t.status = "pending"
    /\ task_id \notin db.started
    /\ Orchestrated("start", task_id, ts_start(db, task_id))

StartCompletes(task_id) ==
    /\ task_id \in db.started
    /\ Orchestrated("start_completes", task_id, ts_start_completes(db, task_id))

StartRaises(task_id) ==
    /\ task_id \in db.started
    /\ Orchestrated("start_raises", task_id, ts_start_raises(db, task_id))

GetTaskStatus(user, task_id) ==
    Served("get_task_status", user, task_id,
           \E t \in db.tasks : t.id = task_id /\ t.user_id # user,
           get_task_status(db, user, task_id))

CancelTask(user, task_id) ==
    Served("cancel_task", user, task_id,
           \E t \in db.tasks : t.id = task_id /\ t.user_id # user,
           cancel_task(db, user, task_id))

SaveReview(user) ==
    /\ db.next_review_id <= MaxReviews
    /\ Served("save_review", user, db.next_review_id, FALSE, save_review(db, user))

GetReviewHistory(user) ==
    Served("get_review_history", user, 0, FALSE, get_review_history(db, user))

DeleteReview(user, review_id) ==
    Served("delete_review", user, review_id,
           \E r \in db.reviews : r.id = review_id /\ r.user_id # user,
           delete_review(db, user, review_id))

-----------------------------------------------------------------------------
(* Settings and the versioned cache keys of the analysis service *)

\* the attributes the analysis service reads from settings
AnalysisSettings == {"PROMPT_VERSION", "ANALYZER_MODEL_TAG"}

\* class Settings (core/config.py) declares neither of them and ignores
\* extra values: reading one raises AttributeError
DeclaredSettings ==
    [name \in AnalysisSettings |-> [declared |-> FALSE, value |-> <<>>]]

\* PROMPT_VERSION and ANALYZER_MODEL_TAG of the configurations that declare
\* them; <<>> is None or the empty string, which `or` treats alike
ConfigPool ==
    {<<<<>>, <<>>>>, <<<<>>, <<"x">>>>, <<<<"2">>, <<"x">>>>,
     <<<<"2">>, <<"x", ":", "x">>>>, <<<<"2", ":", "x">>, <<"x">>>>}

\* the configurations a process can be started with
Configurations ==
    {DeclaredSettings} \cup
    {[name \in AnalysisSettings |->
        [declared |-> TRUE,
         value |-> IF name = "PROMPT_VERSION" THEN pair[1] ELSE pair[2]]] :
       pair \in ConfigPool}

\* the configuration that declares both and sets neither
UnsetConfiguration ==
    [name \in AnalysisSettings |-> [declared |-> TRUE, value |-> <<>>]]

\* x or default
Or(x, default) == IF x = <<>> THEN default ELSE x

\* settings.PROMPT_VERSION or "1.0.0"
schema_version(s) == Or(s["PROMPT_VERSION"].value, <<"1.0.0">>)

\* settings.ANALYZER_MODEL_TAG or "gemini-2.0-flash"
model_tag(s) == Or(s["ANALYZER_MODEL_TAG"].value, <<"gemini-2.0-flash">>)

\* reading both attributes succeeds
SettingsReadable(s) == \A name \in AnalysisSettings : s[name].declared

\* _get_paper_hash: sha256 of the bytes, or of the id, cut to 16 hex digits
PaperHashes == {"h1", "h2"}

\* A mutant: the key does not hold the schema version.
_get_cache_key_unversioned(s, paper_hash, key_type) ==
    IF ~SettingsReadable(s)
    THEN [raised |-> TRUE, key |-> <<>>]
    ELSE [raised |-> FALSE,
          key |-> <<"analysis", ":", paper_hash, ":">> \o model_tag(s)]

\* _get_cache_key(paper_hash, key_type): the f-string, ':' between the parts
_get_cache_key(s, paper_hash, key_type) ==
    IF ~SettingsReadable(s)
    THEN [raised |-> TRUE, key |-> <<>>]
    ELSE [raised |-> FALSE,
          key |-> <<"analysis", ":", paper_hash, ":">> \o schema_version(s)
                    \o <<":">> \o model_tag(s)
                    \o (IF key_type = "key_insights"
                        THEN <<":", "key_insights">> ELSE <<>>)]

-----------------------------------------------------------------------------
(* The key-value store behind the caches (Redis) *)

\* A mutant: the value of a key is returned whether it has expired or not.
cache_get_no_expiry(c, key, t) == {e \in c : e.key = key}

\* GET key at time t: the value, unless the key is absent or has expired
cache_get(c, key, t) == {e \in c : e.key = key /\ t < e.expires_at}

\* SETEX key ttl value at time t: the entry replaces the one of that key
cache_setex(c, key, ttl, value, t) ==
    {e \in c : e.key # key} \cup
    {[key |-> key, value |-> value, expires_at |-> t + ttl]}

-----------------------------------------------------------------------------
(* AnalysisService: analyze_paper, get_paper_analysis, compute_key_insights,
   compute_in_depth.  env says what the world does during one request:
   env.fetch how _fetch_paper ends (ok: every call succeeds; gone: the first
   call succeeds and the later ones find nothing; race: the first call of an
   uploaded paper hits the FileNotFoundError of a file removed after the
   existence check), env.cache whether self.cache is None (none), reachable
   (up) or unreachable (down), env.stage the first stage that fails. *)

AnalysisPaperIds == {"p1"}

\* _get_paper_hash(paper_id, pdf_bytes): a function of the bytes
paper_hash_of(paper_id) == IF paper_id = "p1" THEN "h1" ELSE "h2"

FetchBehaviours == {"ok", "gone", "404", "500", "race"}

CacheBehaviours == {"up", "down", "none"}

Stages == {"ok", "extract fails", "llm raises", "no template"}

\* the worlds of one request; where the first fetch fails nothing else is
\* reached, so one world stands for all
AnalysisEnvs ==
    {[fetch |-> f, cache |-> c, stage |-> st] :
        f \in {"ok", "gone"}, c \in CacheBehaviours, st \in Stages}
    \cup {[fetch |-> f, cache |-> "up", stage |-> "ok"] : f \in {"404", "500", "race"}}

\* the outcome of the n-th call of _fetch_paper in a request
fetch_result(env, n) ==
    CASE env.fetch = "ok" -> [kind |-> "paper"]
      [] env.fetch = "gone" ->
            IF n = 1 THEN [kind |-> "paper"]
            ELSE PlainHTTPException(404, "Uploaded paper not found")
      [] env.fetch = "404" -> PlainHTTPException(404, "Paper not found")
      [] env.fetch = "500" -> PlainHTTPException(500, "Failed to fetch paper")
      [] env.fetch = "race" ->
            IF n = 1 THEN [kind |-> "FileNotFoundError"]
            ELSE PlainHTTPException(404, "Uploaded paper not found")

\* ttl = 3600 if os.getenv("ENV") == "dev" else 86400
ANALYSIS_TTL == 86400

\* PaperAnalysis(paper=metadata, at_a_glance=..., key_insights=..., ...)
PaperAnalysis(title, at_a_glance, s) ==
    [kind |-> "PaperAnalysis", title |-> title, at_a_glance |-> at_a_glance,
     key_insights |-> "None", in_depth |-> "None",
     schema_version |-> schema_version(s), model_tag |-> model_tag(s)]

\* the value an operation returned or the exception it raised, with the
\* cache it leaves and whether the value came out of the cache
Returned(result, c, from_cache) ==
    [result |-> result, cache |-> c, from_cache |-> from_cache]

\* lines 432-495: the handler of every exception that is not an
\* HTTPException: the paper is fetched again for its metadata (a failure
\* gives the metadata 'Analysis Unavailable') and a PaperAnalysis of fallback
\* content is returned; building it reads the settings, and a failure there
\* is raised as HTTPException(500)
analyze_fallback(env, s, n) ==
    IF ~SettingsReadable(s)
    THEN PlainHTTPException(500, "Analysis failed")
    ELSE PaperAnalysis(IF fetch_result(env, n).kind = "paper"
                       THEN "paper" ELSE "Analysis Unavailable",
                       "fallback", s)

\* analyze_paper(paper_id, force_refresh) at time t with cache c and
\* settings s (lines 353-495)
analyze_paper(paper_id, force_refresh, env, c, s, t) ==
    LET f == fetch_result(env, 1)
        k == _get_cache_key(s, paper_hash_of(paper_id), "analysis")
        hit == cache_get(c, k.key, t)
    IN  CASE f.kind = "error" -> Returned(f, c, FALSE)
          [] f.kind = "FileNotFoundError" -> Returned(analyze_fallback(env, s, 2), c, FALSE)
          [] f.kind = "paper" ->
               IF k.raised
               THEN Returned(analyze_fallback(env, s, 2), c, FALSE)
               ELSE IF ~force_refresh /\ env.cache = "up" /\ hit # {}
               THEN Returned((CHOOSE e \in hit : TRUE).value, c, TRUE)
               ELSE IF env.stage = "extract fails"
               THEN Returned(PlainHTTPException(400, "Failed to extract text from PDF"),
                             c, FALSE)
               ELSE IF env.stage = "llm raises"
               THEN Returned(analyze_fallback(env, s, 2), c, FALSE)
               ELSE LET analysis ==
                          PaperAnalysis("paper", "generated", s)
                    IN  Returned(analysis,
                                 IF env.cache = "up"
                                 THEN cache_setex(c, k.key, ANALYSIS_TTL, analysis, t)
                                 ELSE c,
                                 FALSE)

\* get_paper_analysis (lines 497-517): the cached analysis, or None; every
\* exception is logged and answered with None
get_paper_analysis(paper_id, env, c, s, t) ==
    LET k == _get_cache_key(s, paper_hash_of(paper_id), "analysis")
        hit == cache_get(c, k.key, t)
    IN  IF fetch_result(env, 1).kind = "paper" /\ ~k.raised
           /\ env.cache = "up" /\ hit # {}
        THEN Returned((CHOOSE e \in hit : TRUE).value, c, TRUE)
        ELSE Returned([kind |-> "None"], c, FALSE)

\* lines 529-533 and 613-617: the cached analysis, else analyze_paper
base_analysis(paper_id, env, c, s, t) ==
    LET cached == get_paper_analysis(paper_id, env, c, s, t)
    IN  IF cached.result.kind # "None" THEN cached
        ELSE analyze_paper(paper_id, FALSE, env, c, s, t)

\* lines 535-601 and 619-693: what compute_key_insights and compute_in_depth
\* do with the base analysis: fetch again, extract, generate, store
compute_on(base, updated, paper_id, env, s, t, raises) ==
    LET f == fetch_result(env, 2)
        k == _get_cache_key(s, paper_hash_of(paper_id), "analysis")
    IN  IF base.result.kind = "error" THEN base
        ELSE IF f.kind = "error" THEN Returned(f, base.cache, FALSE)
        ELSE IF env.stage = "extract fails"
        THEN Returned(PlainHTTPException(400, "Failed to extract text from PDF"),
                      base.cache, FALSE)
        ELSE IF env.stage \in raises \/ k.raised
        THEN Returned(PlainHTTPException(500, "computation failed"), base.cache, FALSE)
        ELSE Returned(updated,
                      IF env.cache = "up"
                      THEN cache_setex(base.cache, k.key, ANALYSIS_TTL, updated, t)
                      ELSE base.cache,
                      base.from_cache)

\* A mutant: the analysis with its key insights is stored under a key of
\* its own, _get_cache_key(paper_hash, "key_insights").
compute_key_insights_own_key(paper_id, env, c, s, t) ==
    LET base == base_analysis(paper_id, env, c, s, t)
        r == compute_on(base,
                        [base.result EXCEPT !.key_insights = "generated"],
                        paper_id, env, s, t, {"llm raises"})
        k == _get_cache_key(s, paper_hash_of(paper_id), "key_insights")
    IN  IF r.cache = base.cache THEN r
        ELSE [r EXCEPT !.cache = cache_setex(base.cache, k.key, ANALYSIS_TTL,
                                             r.result, t)]

\* compute_key_insights (lines 519-601): a failing generation is raised as
\* HTTPException(500)
compute_key_insights(paper_id, env, c, s, t) ==
    LET base == base_analysis(paper_id, env, c, s, t)
    IN  compute_on(base,
                   [base.result EXCEPT !.key_insights = "generated"],
                   paper_id, env, s, t, {"llm raises"})

\* compute_in_depth (lines 603-693): a missing prompt template is a
\* ValueError, raised as HTTPException(500); a failing generation is
\* answered with fallback content
compute_in_depth(paper_id, env, c, s, t) ==
    LET base == base_analysis(paper_id, env, c, s, t)
    IN  compute_on(base,
                   [base.result EXCEPT !.in_depth =
                       IF env.stage = "llm raises" THEN "fallback" ELSE "generated"],
                   paper_id, env, s, t, {"no template"})

\* the same world with a reachable cache
WithCache(env) == [env EXCEPT !.cache = "up"]

\* one request to the analysis service, as a whole; for a request made while
\* the cache was unreachable, on_miss is what it gives with an empty cache
AnalysisServed(op, paper_id, env, r, miss) ==
    /\ cache' = r.cache
    /\ req' = [kind |-> "analysis", pc |-> "done", op |-> op, paper_id |-> paper_id,
               fetched |-> env.fetch = "ok", cache_down |-> env.cache = "down",
               cache_up |-> env.cache = "up",
               from_cache |-> r.from_cache, result |-> r.result,
               on_miss |-> IF env.cache = "down" THEN miss.result ELSE r.result]
    /\ UNCHANGED <<uploads, tmp, db, dbreq, settings, now, jwks_cache, consumed>>

AnalyzePaper(paper_id, force_refresh, env) ==
    AnalysisServed("analyze_paper", paper_id, env,
                   analyze_paper(paper_id, force_refresh, env, cache, settings, now),
                   analyze_paper(paper_id, force_refresh, WithCache(env), {}, settings, now))

GetPaperAnalysis(paper_id, env) ==
    AnalysisServed("get_paper_analysis", paper_id, env,
                   get_paper_analysis(paper_id, env, cache, settings, now),
                   get_paper_analysis(paper_id, WithCache(env), {}, settings, now))

ComputeKeyInsights(paper_id, env) ==
    AnalysisServed("compute_key_insights", paper_id, env,
                   compute_key_insights(paper_id, env, cache, settings, now),
                   compute_key_insights(paper_id, WithCache(env), {}, settings, now))

ComputeInDepth(paper_id, env) ==
    AnalysisServed("compute_in_depth", paper_id, env,
                   compute_in_depth(paper_id, env, cache, settings, now),
                   compute_in_depth(paper_id, WithCache(env), {}, settings, now))

\* the process is restarted with another configuration; the cache stays
Redeploy(s) ==
    /\ s # settings
    /\ settings' = s
    /\ req' = Idle
    /\ UNCHANGED <<uploads, tmp, db, dbreq, cache, now, jwks_cache, consumed>>

-----------------------------------------------------------------------------
(* compute_key_insights and compute_in_depth running concurrently on one
   paper.  Both are coroutines that await between reading the base analysis
   (lines 531-533, 615-617) and writing the updated one (lines 584-589,
   676-681); nothing is held across the awaits.  Each SETEX is one command
   of the store. *)

WriterOps == {"compute_key_insights", "compute_in_depth"}

\* the worlds of a writer: the paper can be fetched
WriterEnvs ==
    {env \in AnalysisEnvs : env.fetch = "ok" /\ env.stage \in {"ok", "llm raises"}}

\* the stages at which an operation raises
raising_stages(op) ==
    IF op = "compute_key_insights" THEN {"llm raises"} ELSE {"no template"}

\* lines 578 and 670: the section an operation sets on its analysis object
updated_analysis(op, analysis, env) ==
    IF op = "compute_key_insights"
    THEN [analysis EXCEPT !.key_insights = "generated"]
    ELSE [analysis EXCEPT !.in_depth =
             IF env.stage = "llm raises" THEN "fallback" ELSE "generated"]

NoAnalysis == [kind |-> "None"]

\* A mutant: the updated analysis is written only while the key is absent.
WriterStore_if_absent(c, paper_id, value, s, t) ==
    LET key == _get_cache_key(s, paper_hash_of(paper_id), "analysis").key
    IN  IF cache_get(c, key, t) # {} THEN c
        ELSE cache_setex(c, key, ANALYSIS_TTL, value, t)

\* lines 581-587 and 673-679: self.cache.setex(cache_key, ttl, json)
WriterStore(c, paper_id, value, s, t) ==
    cache_setex(c, _get_cache_key(s, paper_hash_of(paper_id), "analysis").key,
                ANALYSIS_TTL, value, t)

\* the two operations are called on a paper
WritersBegin(paper_id) ==
    /\ req.kind = "writers" => \A op \in WriterOps : req.at[op] = "done"
    /\ req' = [kind |-> "writers", pc |-> "running", paper_id |-> paper_id,
               at |-> [op \in WriterOps |-> "start"],
               env |-> [op \in WriterOps |-> [fetch |-> "ok", cache |-> "up", stage |-> "ok"]],
               analysis |-> [op \in WriterOps |-> NoAnalysis],
               wrote |-> [op \in WriterOps |-> FALSE],
               last_written |-> NoAnalysis]
    /\ UNCHANGED <<uploads, tmp, db, dbreq, cacheVars, consumed>>

\* lines 531-533, 615-617: an operation gets its base analysis, from the
\* cache or from analyze_paper, which stores what it generated (line 420)
WriterRead(op, env) ==
    /\ req.kind = "writers" /\ req.at[op] = "start"
    /\ LET base == base_analysis(req.paper_id, env, cache, settings, now)
           stored == /\ ~base.from_cache /\ env.cache = "up"
                     /\ base.result.kind = "PaperAnalysis"
                     /\ base.result.at_a_glance = "generated"
       IN  /\ cache' = base.cache
           /\ req' = [req EXCEPT
                        !.env[op] = env,
                        !.at[op] = IF base.result.kind = "error" THEN "done" ELSE "held",
                        !.analysis[op] = IF base.result.kind = "error"
                                         THEN NoAnalysis ELSE base.result,
                        !.last_written = IF stored THEN base.result ELSE @]
    /\ UNCHANGED <<uploads, tmp, db, dbreq, settings, now, jwks_cache, consumed>>

\* lines 536-591, 620-683: the operation generates its section, sets it on
\* the analysis it holds and stores that analysis
WriterWrite(op) ==
    /\ req.kind = "writers" /\ req.at[op] = "held"
    /\ LET env == req.env[op]
           updated == updated_analysis(op, req.analysis[op], env)
           raised == env.stage \in raising_stages(op)
                       \/ _get_cache_key(settings, paper_hash_of(req.paper_id), "analysis").raised
           stored == ~raised /\ env.cache = "up"
       IN  /\ cache' = IF stored
                       THEN WriterStore(cache, req.paper_id, updated, settings, now)
                       ELSE cache
           /\ req' = [req EXCEPT
                        !.at[op] = "done",
                        !.analysis[op] = IF raised THEN NoAnalysis ELSE updated,
                        !.wrote[op] = stored,
                        !.last_written = IF stored THEN updated ELSE @]
    /\ UNCHANGED <<uploads, tmp, db, dbreq, settings, now, jwks_cache, consumed>>

-----------------------------------------------------------------------------
(* RedisService: get_cached_review, cache_review.  A Python value is
   [t, v]: its type and its content. *)

\* review_data values: a dict of JSON types, one that holds a tuple, one
\* that holds a datetime (ReviewResponse.dict() holds Paper.published)
PyValues ==
    {[t |-> "dict", v |-> <<"r1">>], [t |-> "dict", v |-> <<"r2">>],
     [t |-> "dict with tuple", v |-> <<"r1">>],
     [t |-> "dict with datetime", v |-> <<"r1">>]}

None == [t |-> "None", v |-> <<>>]

\* json.dumps(value): a datetime is a TypeError; a tuple is written as an
\* array
json_dumps(value) ==
    IF value.t = "dict with datetime"
    THEN [raised |-> TRUE, text |-> <<>>]
    ELSE [raised |-> FALSE,
          text |-> <<IF value.t = "dict with tuple" THEN "object with array"
                      ELSE "object">> \o value.v]

\* json.loads(text): an object is a dict, an array a list
json_loads(text) ==
    [t |-> IF text[1] = "object with array" THEN "dict with list" ELSE "dict",
     v |-> SubSeq(text, 2, Len(text))]

Topics == {"t1", "t2"}

\* f"review:{topic}"
review_key(topic) == <<"review", ":", topic>>

\* get_cached_review(topic): None when the store is unreachable
\* (redis.RedisError) or has no value; else json.loads of the value
get_cached_review(topic, up, c, t) ==
    LET hit == cache_get(c, review_key(topic), t)
    IN  IF ~up \/ hit = {} THEN None
        ELSE json_loads((CHOOSE e \in hit : TRUE).value.text)

\* cache_review(topic, review_data, expire_time): json.dumps is evaluated
\* before setex is called and its TypeError is no redis.RedisError; an
\* unreachable store is one and gives False.  The entry keeps the value
\* that was put next to its text.
cache_review(topic, review_data, expire_time, up, c, t) ==
    LET dumped == json_dumps(review_data)
    IN  IF dumped.raised
        THEN [raised |-> TRUE, result |-> FALSE, cache |-> c]
        ELSE IF ~up
        THEN [raised |-> FALSE, result |-> FALSE, cache |-> c]
        ELSE [raised |-> FALSE, result |-> TRUE,
              cache |-> cache_setex(c, review_key(topic), expire_time,
                                    [text |-> dumped.text, of |-> review_data], t)]

GetCachedReview(topic, up) ==
    /\ req' = [kind |-> "cache", pc |-> "done", op |-> "get_cached_review",
               topic |-> topic, up |-> up, raised |-> FALSE,
               result |-> get_cached_review(topic, up, cache, now)]
    /\ UNCHANGED <<uploads, tmp, db, dbreq, cacheVars, consumed>>

CacheReview(topic, review_data, expire_time, up) ==
    LET r == cache_review(topic, review_data, expire_time, up, cache, now)
    IN  /\ cache' = r.cache
        /\ req' = [kind |-> "cache", pc |-> "done", op |-> "cache_review",
                   topic |-> topic, up |-> up, raised |-> r.raised,
                   result |-> r.result, review_data |-> review_data]
        /\ UNCHANGED <<uploads, tmp, db, dbreq, settings, now, jwks_cache, consumed>>

\* a second passes
Tick ==
    /\ now < MaxTime
    /\ now' = now + 1
    /\ req' = Idle
    /\ UNCHANGED <<uploads, tmp, db, dbreq, cache, settings, jwks_cache, consumed>>

-----------------------------------------------------------------------------
(* PaperService.process_uploaded_pdf, called on its own *)

\* the uploads given to process_uploaded_pdf: PDF bytes under any name
ProcessFiles ==
    {f \in UploadFiles :
        /\ f.filename \in {<<>>, <<"a", ".", "p", "d", "f">>, <<"a", ".", "P", "D", "F">>}
        /\ f.content.len \in {8, 9}
        /\ startswith_magic(f.content)}

\* what the PDF loader and the model do in one call: PyPDFLoader.load raises,
\* llm.invoke raises, or the answer has no 'Title:' line, an empty one, or
\* a title
ProcessEnvs ==
    {[stage |-> "ok", title |-> t] : t \in {"absent", "empty", "t1"}}
    \cup {[stage |-> st, title |-> "absent"] : st \in {"load raises", "llm raises"}}

\* lines 340-346, 359-360: title = "Research Paper"; a 'Title:' line sets it;
\* if not title: title = file.filename or "Research Paper"
extracted_title(file, env) ==
    CASE env.title = "absent" -> <<"Research Paper">>
      [] env.title = "empty"  -> Or(file.filename, <<"Research Paper">>)
      [] OTHER                -> <<env.title>>

\* A mutant: the stored file and the id are named after the uploaded file's
\* name, not after its content.
process_uploaded_pdf_named_by_filename(file, env, files) ==
    IF env.stage = "load raises"
    THEN [outcome |-> PlainHTTPException(500, "Error processing PDF"),
          files |-> files, llm_calls |-> 0]
    ELSE IF env.stage = "llm raises"
    THEN [outcome |-> PlainHTTPException(500, "Error processing PDF"),
          files |-> files, llm_calls |-> 1]
    ELSE LET content_hash == file.filename
         IN  [outcome |-> [kind |-> "Paper", status_code |-> 200,
                           id |-> <<UPLOAD_PREFIX>> \o content_hash,
                           title |-> extracted_title(file, env),
                           url |-> <<"/uploads/">> \o content_hash \o <<".pdf">>],
              files |-> files \cup {content_hash}, llm_calls |-> 1]

\* lines 300-383: process_uploaded_pdf(file) on the uploads directory
\* `files`: load the pages (315-316), hash the content (322), ask the model
\* for title, authors and summary (335), write uploads/<hash>.pdf (353-356)
\* and return the Paper (366-373); every exception becomes
\* HTTPException(500) (375-379). llm_calls counts the calls of llm.invoke.
process_uploaded_pdf(file, env, files) ==
    IF env.stage = "load raises"
    THEN [outcome |-> PlainHTTPException(500, "Error processing PDF"),
          files |-> files, llm_calls |-> 0]
    ELSE IF env.stage = "llm raises"
    THEN [outcome |-> PlainHTTPException(500, "Error processing PDF"),
          files |-> files, llm_calls |-> 1]
    ELSE LET content_hash == sha256_prefix(file)
         IN  [outcome |-> [kind |-> "Paper", status_code |-> 200,
                           id |-> <<UPLOAD_PREFIX>> \o content_hash,
                           title |-> extracted_title(file, env),
                           url |-> <<"/uploads/">> \o content_hash \o <<".pdf">>],
              files |-> files \cup {content_hash}, llm_calls |-> 1]

NoCall == [file |-> "None", outcome |-> NoOutcome, after |-> {}]

\* one call of process_uploaded_pdf; the call before it is kept beside it
ProcessUploadedPdf(file, env) ==
    LET r == process_uploaded_pdf(file, env, uploads)
    IN  /\ uploads' = r.files
        /\ req' = [kind |-> "process_uploaded_pdf", pc |-> "done",
                   call |-> [file |-> file, outcome |-> r.outcome,
                             before |-> uploads, after |-> r.files,
                             llm_calls |-> r.llm_calls],
                   prev |-> IF req.kind = "process_uploaded_pdf"
                            THEN [file |-> req.call.file, outcome |-> req.call.outcome,
                                  after |-> req.call.after]
                            ELSE NoCall]
        /\ consumed' = consumed \ r.files
        /\ UNCHANGED <<tmp, db, dbreq, cacheVars>>

-----------------------------------------------------------------------------
(* PaperService.get_papers_by_ids, called on its own *)

\* arXiv ids, one character a token: two of the present form and one of the
\* form archive/number whose archive name holds a 'v'
ArxivBaseIds ==
    {<<"1", ".", "2">>, <<"2", ".", "1">>, <<"s", "o", "l", "v", "/", "1">>}

\* version numbers
Versions == {<<"1">>, <<"1", "2">>}

\* the ids a caller passes: with and without a version suffix
ArxivIdPool ==
    ArxivBaseIds \cup {x \o <<"v">> \o v : x \in ArxivBaseIds, v \in Versions}

\* lines 74-112: the ids are cut at the version suffix (78-82) and looked up
\* in one search (84-89); each result is a Paper whose id is the base id of
\* its entry (92-101); no result at all, or a failing search, is
\* HTTPException(500, "Failed to fetch papers: ...") (103-112)
get_papers_by_ids(paper_ids, found) ==
    LET ids == formatted_ids(paper_ids)
    IN  [formatted_ids |-> ids,
         outcome |-> IF found /\ ids # <<>>
                     THEN [kind |-> "papers", status_code |-> 200, papers |-> ids]
                     ELSE PlainHTTPException(500, "Failed to fetch papers")]

GetPapersByIds(paper_ids, found) ==
    LET r == get_papers_by_ids(paper_ids, found)
    IN  /\ req' = [kind |-> "get_papers_by_ids", pc |-> "done",
                   paper_ids |-> paper_ids, formatted_ids |-> r.formatted_ids,
                   outcome |-> r.outcome]
        /\ UNCHANGED <<uploads, tmp, db, dbreq, cacheVars, consumed>>

-----------------------------------------------------------------------------
(* get_or_create_user (utils/user_utils.py) and the users table
   (models/user.py).  A row is [clerk_id, email, first_name]; last_name is
   handled as first_name is. *)

\* None, where a User is expected
NoUser == [clerk_id |-> "None"]

\* db.query(User).filter(User.clerk_id == clerk_id).first()
first_user(rows, clerk_id) ==
    IF \E u \in rows : u.clerk_id = clerk_id
    THEN CHOOSE u \in rows : u.clerk_id = clerk_id
    ELSE NoUser

\* clerk_id and email are unique=True (models/user.py lines 10-11): a commit
\* that would leave two rows with one of them alike is an IntegrityError
violates_unique(rows, row) ==
    \E u \in rows : u.clerk_id = row.clerk_id \/ u.email = row.email

\* lines 27-41: the row with the fields that changed; a name that is empty
\* is not written
updated_user(user, email, first_name) ==
    [user EXCEPT !.email = email,
                 !.first_name = IF first_name # "" THEN first_name ELSE @]

\* lines 17-43, with `user` what the query of line 15 gave: the new row is
\* added and committed, or the changed fields are set and committed
commit_user(rows, user, email, first_name, clerk_id) ==
    IF user = NoUser
    THEN LET row == [clerk_id |-> clerk_id, email |-> email, first_name |-> first_name]
         IN  IF violates_unique(rows, row)
             THEN [raised |-> TRUE, user |-> NoUser, rows |-> rows]
             ELSE [raised |-> FALSE, user |-> row, rows |-> rows \cup {row}]
    ELSE LET row == updated_user(user, email, first_name)
             others == {u \in rows : u.clerk_id # user.clerk_id}
             \* UPDATE users SET <the changed columns> WHERE id = <user.id>
             current == first_user(rows, user.clerk_id)
             written == [current EXCEPT
                           !.email = IF row.email # user.email THEN row.email ELSE @,
                           !.first_name = IF row.first_name # user.first_name
                                          THEN row.first_name ELSE @]
         IN  IF row = user THEN [raised |-> FALSE, user |-> user, rows |-> rows]
             ELSE IF \E u \in others : u.email = written.email
             THEN [raised |-> TRUE, user |-> NoUser, rows |-> rows]
             ELSE [raised |-> FALSE, user |-> written, rows |-> others \cup {written}]

\* lines 5-43, with nothing in between
get_or_create_user(rows, clerk_id, email, first_name) ==
    commit_user(rows, first_user(rows, clerk_id), email, first_name, clerk_id)

\* the server processes that share the database.  The callers of
\* get_or_create_user are coroutines and it does not await, so the calls of
\* one process follow one another; those of two processes interleave at the
\* statements that reach the database
ServerProcesses == {"w1", "w2"}

Emails == {<<"e1">>, <<"e2">>}

FirstNames == {"", "n1"}

NoCalls ==
    [p \in ServerProcesses |-> [pc |-> "idle"]]

UserCalls == IF req.kind = "get_or_create_user" THEN req.calls ELSE NoCalls

\* a process calls get_or_create_user(db, clerk_id, email, first_name)
UserCallBegins(p, clerk_id, email, first_name) ==
    /\ UserCalls[p].pc \in {"idle", "returned", "raised"}
    /\ req' = [kind |-> "get_or_create_user", pc |-> "running",
               calls |-> [UserCalls EXCEPT ![p] =
                            [pc |-> "query", clerk_id |-> clerk_id, email |-> email,
                             first_name |-> first_name]]]
    /\ UNCHANGED <<uploads, tmp, db, dbreq, cacheVars, consumed>>

\* line 15
UserQuery(p) ==
    /\ UserCalls[p].pc = "query"
    /\ req' = [req EXCEPT !.calls[p] =
                 [pc |-> "commit", clerk_id |-> @.clerk_id, email |-> @.email,
                  first_name |-> @.first_name,
                  user |-> first_user(db.users, @.clerk_id)]]
    /\ UNCHANGED <<uploads, tmp, db, dbreq, cacheVars, consumed>>

\* lines 17-43
UserCommit(p) ==
    /\ UserCalls[p].pc = "commit"
    /\ LET call == req.calls[p]
           r == commit_user(db.users, call.user, call.email, call.first_name,
                            call.clerk_id)
       IN  /\ db' = [db EXCEPT !.users = r.rows]
           /\ req' = [req EXCEPT !.calls[p] =
                        [pc |-> IF r.raised THEN "raised" ELSE "returned",
                         clerk_id |-> call.clerk_id, email |-> call.email,
                         first_name |-> call.first_name, user |-> call.user,
                         result |-> r.user, changed |-> r.rows # db.users]]
    /\ UNCHANGED <<uploads, tmp, dbreq, cacheVars, consumed>>

\* f"{clerk_id}@litxplore.generated" (core/auth.py lines 267-269)
generated_email(clerk_id) == <<clerk_id, "@litxplore.generated">>

-----------------------------------------------------------------------------
(* get_current_user (core/auth.py) *)

\* raise_unauthorized(message, error_code)
Unauthorized(error_code, message) == ErrorResponse(401, error_code, message)

\* the key ids of the JWKS that get_jwks returns
JwksKids == {"k1"}

\* what PyJWT.get_unverified_header gives for a token: it raises, the header
\* has no 'kid', or the header's 'kid'
TokenHeaders == {"malformed", "no kid", "k1", "k2"}

\* what PyJWT.decode does with a token under the matching key
DecodeResults == {"payload", "ExpiredSignatureError", "InvalidTokenError"}

\* the claims of a payload: sub absent, empty or a Clerk user id; exp and
\* iat present or not
Payloads ==
    [sub : {"absent", ""} \cup Users, exp : BOOLEAN, iat : BOOLEAN]

Tokens == [header : TokenHeaders, decode : DecodeResults, payload : Payloads]

NoCredentials == [header |-> "None"]

\* get_jwks raises (the fetch failed), the matching JWK cannot be made into
\* a key, or the keys are usable; get_or_create_user raises or not
AuthEnvs == [jwks : {"fetch fails", "bad key", "keys"}, db_fails : BOOLEAN]

\* lines 221-241: validate_token_claims: sub, exp and iat are all there
claims_valid(payload) == payload.sub # "absent" /\ payload.exp /\ payload.iat

\* line 232: required_claims = ["sub", "exp", "iat"]
required_claims == <<"sub", "exp", "iat">>

\* claim in payload: the key is there, whatever its value
claim_in(claim, payload) ==
    CASE claim = "sub" -> payload.sub # "absent"
      [] claim = "exp" -> payload.exp
      [] claim = "iat" -> payload.iat

\* A mutant: the search stops at the first claim that is missing.
missing_claims_first_only(payload) ==
    LET m == SelectSeq(required_claims, LAMBDA c : ~claim_in(c, payload))
    IN  IF m = <<>> THEN <<>> ELSE <<Head(m)>>

\* line 233: [claim for claim in required_claims if claim not in payload]
missing_claims(payload) ==
    SelectSeq(required_claims, LAMBDA c : ~claim_in(c, payload))

\* ', '.join(names)
RECURSIVE join_comma(_)
join_comma(names) ==
    IF names = <<>> THEN <<>>
    ELSE IF Len(names) = 1 THEN names
    ELSE <<Head(names), ", ">> \o join_comma(Tail(names))

\* lines 221-241: validate_token_claims(payload): returns None, or raises
\* 401 INVALID_TOKEN "Invalid token: Missing required claims: <names>"
validate_token_claims(payload) ==
    LET missing == missing_claims(payload)
    IN  IF missing # <<>>
        THEN [raised |-> TRUE,
              outcome |-> Unauthorized("INVALID_TOKEN",
                             <<"Invalid token: Missing required claims: ">>
                                \o join_comma(missing))]
        ELSE [raised |-> FALSE, outcome |-> [kind |-> "None", status_code |-> 200]]

\* A mutant: every failure of PyJWT.decode is reported as INVALID_TOKEN.
decode_failure_code_single(decode) == "INVALID_TOKEN"

\* lines 157-168: except ExpiredSignatureError -> TOKEN_EXPIRED;
\* except (InvalidTokenError, PyJWTError) -> INVALID_TOKEN
decode_failure_code(decode) ==
    IF decode = "ExpiredSignatureError" THEN "TOKEN_EXPIRED" ELSE "INVALID_TOKEN"

AuthFailed(steps, error_code, message, d) ==
    [outcome |-> Unauthorized(error_code, message), steps |-> steps,
     user_lookup |-> FALSE, db |-> d]

\* lines 71-218: get_current_user(credentials, db).  steps lists the stages
\* that succeeded, in the order they were passed.
get_current_user(credentials, env, d) ==
    IF credentials = NoCredentials
    THEN \* lines 80-85
         AuthFailed(<<>>, "MISSING_TOKEN", "No authentication credentials provided", d)
    ELSE IF credentials.header \in {"malformed", "no kid"}
    THEN \* lines 92-107: the error raised for a missing 'kid' is caught by
         \* the except of the same try and raised again with the same code
         AuthFailed(<<>>, "INVALID_TOKEN", "Invalid token header", d)
    ELSE IF env.jwks = "fetch fails" \/ credentials.header \notin JwksKids
    THEN \* lines 110-133: errors that are not PyJWTError, the one raised
         \* for a key that was not found included, become JWKS_ERROR
         AuthFailed(<<"header">>, "JWKS_ERROR", "JWKS error", d)
    ELSE IF env.jwks = "bad key"
    THEN \* lines 128-129, 210-218: a PyJWTError of from_jwk is raised again
         \* and wrapped by the outermost handler
         AuthFailed(<<"header">>, "INTERNAL_ERROR", "Authentication failed", d)
    ELSE IF credentials.decode # "payload"
    THEN \* lines 136-168
         AuthFailed(<<"header", "key">>, decode_failure_code(credentials.decode),
                    "Invalid token", d)
    ELSE IF validate_token_claims(credentials.payload).raised
    THEN \* line 171
         [outcome |-> validate_token_claims(credentials.payload).outcome,
          steps |-> <<"header", "key", "decode">>, user_lookup |-> FALSE, db |-> d]
    ELSE IF credentials.payload.sub = ""
    THEN \* lines 175-182
         AuthFailed(<<"header", "key", "decode", "claims">>, "INVALID_TOKEN",
                    "Invalid token: Missing user ID", d)
    ELSE IF env.db_fails
    THEN \* lines 189-208: an exception of get_or_create_user
         [outcome |-> Unauthorized("INTERNAL_ERROR", "Authentication failed"),
          steps |-> <<"header", "key", "decode", "claims">>,
          user_lookup |-> TRUE, db |-> d]
    ELSE \* lines 185-198, get_or_create_user with the email of
         \* extract_user_data_from_token: the row with this clerk_id, added
         \* if there is none; its exception is handled as above
         LET r == get_or_create_user(d.users, credentials.payload.sub,
                                     generated_email(credentials.payload.sub), "")
         IN  IF r.raised
             THEN [outcome |-> Unauthorized("INTERNAL_ERROR", "Authentication failed"),
                   steps |-> <<"header", "key", "decode", "claims">>,
                   user_lookup |-> TRUE, db |-> d]
             ELSE [outcome |-> [kind |-> "User", status_code |-> 200,
                                clerk_id |-> r.user.clerk_id,
                                created |-> first_user(d.users, credentials.payload.sub) = NoUser],
                   steps |-> <<"header", "key", "decode", "claims", "user">>,
                   user_lookup |-> TRUE,
                   db |-> [d EXCEPT !.users = r.rows]]

GetCurrentUser(credentials, env) ==
    LET r == get_current_user(credentials, env, db)
    IN  /\ db' = r.db
        /\ req' = [kind |-> "auth", pc |-> "done", credentials |-> credentials,
                   env |-> env, outcome |-> r.outcome, steps |-> r.steps,
                   user_lookup |-> r.user_lookup, users_changed |-> r.db # db]
        /\ UNCHANGED <<uploads, tmp, dbreq, cacheVars, consumed>>

\* validate_token_claims called on its own
ValidateTokenClaims(payload) ==
    /\ req' = [kind |-> "validate_token_claims", pc |-> "done", payload |-> payload,
               result |-> validate_token_claims(payload)]
    /\ UNCHANGED <<uploads, tmp, db, dbreq, cacheVars, consumed>>

-----------------------------------------------------------------------------
(* The other definitions of get_current_user: api/v1/endpoints/users.py
   (the dependency of GET /users/me; the definition of line 29 replaces the
   name imported at line 14) and api/deps.py *)

\* bearer tokens: as Tokens, with whether the token verifies under HS256
\* with CLERK_SECRET_KEY; a token that is not a JWT verifies under nothing
BearerTokens ==
    {t \in [header : TokenHeaders, hs256 : BOOLEAN, decode : DecodeResults,
            payload : [sub : {"absent"} \cup Users, exp : {TRUE}, iat : {TRUE}]] :
        t.header = "malformed" => (~t.hs256 /\ t.decode = "InvalidTokenError")}

\* jwt.decode(token, options={"verify_signature": False}): the payload of
\* every token that is a JWT; DecodeError for the others
decode_unverified(token) ==
    IF token.header = "malformed"
    THEN [raised |-> TRUE, payload |-> token.payload]
    ELSE [raised |-> FALSE, payload |-> token.payload]

\* users.py lines 104-109: the handlers of the outer try.  An exception
\* that is not ExpiredSignatureError gets to `except jwt.JWTError`, a name
\* that PyJWT does not define: the AttributeError leaves the dependency
users_outer_handler(exception) ==
    IF exception = "ExpiredSignatureError"
    THEN PlainHTTPException(401, "Token has expired")
    ELSE PlainHTTPException(500, "Internal Server Error")

\* users.py lines 29-109.  lines 40-85: the payload of the HS256 decoding,
\* else of the RS256 decoding with the JWKS key, else, whatever failed,
\* of the decoding without verification
users_get_current_user(token, db_fails, d) ==
    LET verified == token.hs256
                      \/ (token.header \in JwksKids /\ token.decode = "payload")
        last == decode_unverified(token)
        rejected(exception) ==
            [outcome |-> users_outer_handler(exception), verified |-> verified,
             user_lookup |-> FALSE, db |-> d]
    IN  IF ~verified /\ last.raised THEN rejected("DecodeError")
        ELSE IF token.payload.sub = "absent" THEN rejected("KeyError")
        ELSE LET \* lines 89-100: email = payload.get("email", "")
                 r == get_or_create_user(d.users, token.payload.sub, <<>>, "")
             IN  IF db_fails \/ r.raised
                 THEN [rejected("SQLAlchemyError") EXCEPT !.user_lookup = TRUE]
                 ELSE [outcome |-> [kind |-> "User", status_code |-> 200,
                                    clerk_id |-> r.user.clerk_id,
                                    created |-> first_user(d.users, token.payload.sub) = NoUser],
                       verified |-> verified, user_lookup |-> TRUE,
                       db |-> [d EXCEPT !.users = r.rows]]

\* deps.py lines 11-62: the payload of the HS256 decoding, else of jose's
\* decoding with verify_signature False, else of PyJWT's; the DecodeError
\* of the last one is answered with 401
deps_get_current_user(token) ==
    LET last == decode_unverified(token)
    IN  IF ~token.hs256 /\ last.raised
        THEN [outcome |-> PlainHTTPException(401, "Invalid authentication token"),
              verified |-> FALSE]
        ELSE [outcome |-> [kind |-> "payload", status_code |-> 200,
                           sub |-> token.payload.sub],
              verified |-> token.hs256]

UsersGetCurrentUser(token, db_fails) ==
    LET r == users_get_current_user(token, db_fails, db)
    IN  /\ db' = r.db
        /\ req' = [kind |-> "users_auth", pc |-> "done", credentials |-> token,
                   outcome |-> r.outcome, verified |-> r.verified,
                   user_lookup |-> r.user_lookup, users_changed |-> r.db # db]
        /\ UNCHANGED <<uploads, tmp, dbreq, cacheVars, consumed>>

DepsGetCurrentUser(token) ==
    LET r == deps_get_current_user(token)
    IN  /\ req' = [kind |-> "deps_auth", pc |-> "done", credentials |-> token,
                   outcome |-> r.outcome, verified |-> r.verified,
                   user_lookup |-> FALSE, users_changed |-> FALSE]
        /\ UNCHANGED <<uploads, tmp, db, dbreq, cacheVars, consumed>>

-----------------------------------------------------------------------------
(* JWKSCache and get_jwks (core/auth.py lines 22-69) *)

\* ttl_seconds: int = 3600
JWKS_TTL == 3600

\* last_updated = None
NoTime == -1

\* what response.json() can be: two key sets, and the empty object, which is
\* falsy
KeySets == {"keys 1", "keys 2"}

JsonBodies == KeySets \cup {"{}"}

\* what requests.get and raise_for_status do during a call
FetchOutcomes == JsonBodies \cup {"RequestException"}

\* bool(jwks)
truthy(jwks) == jwks \in KeySets

\* JWKSCache(): lines 24-27
JWKSCache == [jwks |-> "None", last_updated |-> NoTime]

\* A mutant: a key set of exactly the age ttl still counts as valid.
JWKSCache_is_valid_at_ttl(self, t) ==
    IF ~truthy(self.jwks) \/ self.last_updated = NoTime THEN FALSE
    ELSE t - self.last_updated <= JWKS_TTL

\* is_valid (lines 29-33) at time t
JWKSCache_is_valid(self, t) ==
    IF ~truthy(self.jwks) \/ self.last_updated = NoTime THEN FALSE
    ELSE t - self.last_updated < JWKS_TTL

\* update (lines 35-38) at time t
JWKSCache_update(self, jwks, t) == [jwks |-> jwks, last_updated |-> t]

\* get (lines 40-44)
JWKSCache_get(self, t) ==
    IF JWKSCache_is_valid(self, t) THEN self.jwks ELSE "None"

\* get_jwks (lines 49-69) at time t; fetch is what the request to Clerk does
get_jwks(self, t, fetch) ==
    LET cached_jwks == JWKSCache_get(self, t)
    IN  IF truthy(cached_jwks)
        THEN [outcome |-> [kind |-> "jwks", status_code |-> 200, jwks |-> cached_jwks],
              fetched |-> FALSE, cache |-> self]
        ELSE IF fetch = "RequestException"
        THEN [outcome |-> ErrorResponse(500, "EXTERNAL_SERVICE_ERROR", "Failed to fetch JWKS"),
              fetched |-> TRUE, cache |-> self]
        ELSE [outcome |-> [kind |-> "jwks", status_code |-> 200, jwks |-> fetch],
              fetched |-> TRUE, cache |-> JWKSCache_update(self, fetch, t)]

GetJwks(fetch) ==
    LET r == get_jwks(jwks_cache, now, fetch)
    IN  /\ jwks_cache' = r.cache
        /\ req' = [kind |-> "get_jwks", pc |-> "done", at |-> now, fetch |-> fetch,
                   before |-> jwks_cache, after |-> r.cache,
                   fetched |-> r.fetched, outcome |-> r.outcome]
        /\ UNCHANGED <<uploads, tmp, db, dbreq, cache, settings, now, consumed>>

\* the instants the clock is looked at: around the multiples of the ttl
ClockInstants ==
    {k * JWKS_TTL + o : k \in 0..MaxHours, o \in {0, 1, JWKS_TTL - 1}}

\* time passes, up to the instant t
ClockAdvances(t) ==
    /\ t > now
    /\ now' = t
    /\ UNCHANGED <<uploads, tmp, req, db, dbreq, cache, settings, jwks_cache, consumed>>

Init ==
    /\ uploads = {}
    /\ tmp = {}
    /\ req = Idle
    /\ db = EmptyDb
    /\ dbreq = NoRequest
    /\ cache = {}
    /\ settings = DeclaredSettings
    /\ now = 0
    /\ jwks_cache = JWKSCache
    /\ consumed = {}

ReviewNext ==
    \/ \E paper_ids \in SeqsUpTo(PaperIdPool, MaxPaperIds) : ReviewStart(paper_ids)
    \/ ReviewValidate
    \/ ReviewFetchArxiv
    \/ ReviewUploadedExists
    \/ ReviewGetMetadata
    \/ ReviewCheckPapers
    \/ ReviewGenerate
    \/ ReviewCleanupAndReturn
    \/ ReviewExceptHTTP
    \/ ReviewExceptOther
    \/ ReviewFinally

Next ==
    \/ ReviewNext
    \/ ChatNext
    \/ FetchPaperNext
    \/ UploadNext
    \/ \E hash \in Hashes : ConcurrentUpload(hash)
    \/ \E hash \in Hashes : ConcurrentCleanup(hash)
    \/ RequestEnds

Spec == Init /\ [][Next]_vars

NextOwn ==
    \/ \E user \in Users, task_id \in TaskIds : CreateTask(user, task_id)
    \/ \E task_id \in TaskIds : StartTask(task_id)
    \/ \E task_id \in TaskIds : StartCompletes(task_id)
    \/ \E task_id \in TaskIds : StartRaises(task_id)
    \/ \E user \in Users, task_id \in TaskIds : GetTaskStatus(user, task_id)
    \/ \E user \in Users, task_id \in TaskIds : CancelTask(user, task_id)
    \/ \E user \in Users : SaveReview(user)
    \/ \E user \in Users : GetReviewHistory(user)
    \/ \E user \in Users, review_id \in ReviewIds : DeleteReview(user, review_id)

SpecOwn == Init /\ [][NextOwn]_vars

NextAnalysis ==
    \/ \E paper_id \in AnalysisPaperIds, force_refresh \in BOOLEAN, env \in AnalysisEnvs :
          AnalyzePaper(paper_id, force_refresh, env)
    \/ \E paper_id \in AnalysisPaperIds, env \in AnalysisEnvs :
          GetPaperAnalysis(paper_id, env)
    \/ \E paper_id \in AnalysisPaperIds, env \in AnalysisEnvs :
          ComputeKeyInsights(paper_id, env)
    \/ \E paper_id \in AnalysisPaperIds, env \in AnalysisEnvs :
          ComputeInDepth(paper_id, env)
    \/ \E s \in {DeclaredSettings, UnsetConfiguration} : Redeploy(s)

SpecAnalysis == Init /\ [][NextAnalysis]_vars

NextVersions ==
    \/ \E paper_id \in AnalysisPaperIds, force_refresh \in BOOLEAN, env \in AnalysisEnvs :
          AnalyzePaper(paper_id, force_refresh, env)
    \/ \E paper_id \in AnalysisPaperIds, env \in AnalysisEnvs :
          GetPaperAnalysis(paper_id, env)
    \/ \E s \in Configurations : Redeploy(s)

SpecVersions == Init /\ [][NextVersions]_vars

NextCache ==
    \/ \E topic \in Topics, up \in BOOLEAN : GetCachedReview(topic, up)
    \/ \E topic \in Topics, review_data \in PyValues, expire_time \in 1..MaxTTL,
          up \in BOOLEAN : CacheReview(topic, review_data, expire_time, up)
    \/ Tick

SpecCache == Init /\ [][NextCache]_vars

NextUpload ==
    \/ \E file \in ProcessFiles, env \in ProcessEnvs : ProcessUploadedPdf(file, env)
    \/ \E hash \in Hashes : ConcurrentCleanup(hash)

SpecUpload == Init /\ [][NextUpload]_vars

NextArxiv ==
    \E paper_ids \in SeqsUpTo(ArxivIdPool, MaxPaperIds), found \in BOOLEAN :
        GetPapersByIds(paper_ids, found)

SpecArxiv == Init /\ [][NextArxiv]_vars

NextAuth ==
    \/ \E credentials \in Tokens \cup {NoCredentials}, env \in AuthEnvs :
          GetCurrentUser(credentials, env)
    \/ \E payload \in Payloads : ValidateTokenClaims(payload)

SpecAuth == Init /\ [][NextAuth]_vars

NextDeps ==
    \/ \E token \in BearerTokens, env \in AuthEnvs : GetCurrentUser(token, env)
    \/ \E token \in BearerTokens, db_fails \in BOOLEAN : UsersGetCurrentUser(token, db_fails)
    \/ \E token \in BearerTokens : DepsGetCurrentUser(token)

SpecDeps == Init /\ [][NextDeps]_vars

NextJwks ==
    \/ \E fetch \in FetchOutcomes : GetJwks(fetch)
    \/ \E t \in ClockInstants : ClockAdvances(t)

SpecJwks == Init /\ [][NextJwks]_vars

NextUsers ==
    \/ \E p \in ServerProcesses, clerk_id \in Users, email \in Emails,
          first_name \in FirstNames : UserCallBegins(p, clerk_id, email, first_name)
    \/ \E p \in ServerProcesses : UserQuery(p)
    \/ \E p \in ServerProcesses : UserCommit(p)

SpecUsers == Init /\ [][NextUsers]_vars

NextCleanup ==
    \/ \E hash \in Hashes : ConcurrentUpload(hash)
    \/ \E paper_ids \in SeqsUpTo(PaperIdPool, MaxPaperIds), fail \in SUBSET Hashes :
          CleanupUploadedPdfs(paper_ids, fail)

SpecCleanup == Init /\ [][NextCleanup]_vars

NextWriters ==
    \/ \E paper_id \in AnalysisPaperIds : WritersBegin(paper_id)
    \/ \E op \in WriterOps, env \in WriterEnvs : WriterRead(op, env)
    \/ \E op \in WriterOps : WriterWrite(op)
    \/ \E s \in {DeclaredSettings, UnsetConfiguration} : Redeploy(s)

SpecWriters == Init /\ [][NextWriters]_vars

-----------------------------------------------------------------------------
(* Claims *)

ReviewDone == req.kind = "review" /\ req.pc = "done"

\* C1: when generate_review returns or raises and no file removal failed,
\* no file of an 'upload_' id of the request is left in the uploads directory.
C1_CleanupGuarantee ==
    [][(req.kind = "review" /\ req.pc = "finally" /\ req'.pc = "done"
        /\ ~req'.rmFailed)
       => \A hash \in Hashes :
            (<<UPLOAD_PREFIX>> \o hash) \in Range(req.paper_ids)
               => hash \notin uploads']_vars

\* C1 witness: a request that failed with a non-HTTP exception has returned,
\* it removed an uploaded file and no removal failed.
C1_Witness ==
    /\ ReviewDone
    /\ req.primary = [kind |-> "exception"]
    /\ "file_delete" \in req.effects
    /\ ~req.rmFailed

\* C2: every cleanup_uploaded_pdfs call returns cleanup_status completed
\* without raising, and the caller gets the primary outcome: the
\* ReviewResponse, the original HTTPException, or a 500 INTERNAL_ERROR.
C2_CleanupNeverChangesOutcome ==
    req.kind = "review" =>
       /\ \A k \in 1..Len(req.cleanups) :
            ~req.cleanups[k].raised /\ req.cleanups[k].result = "completed"
       /\ req.pc = "done" =>
            IF req.primary = [kind |-> "exception"]
            THEN req.response.status_code = 500 /\ req.response.code = "INTERNAL_ERROR"
            ELSE req.response = req.primary

\* C2 witness: a removal failed during a request that ended with its review.
C2_Witness ==
    /\ ReviewDone
    /\ req.rmFailed
    /\ req.response.kind = "ReviewResponse"

\* C8: a request with an empty paper_ids list ends with 422 VALIDATION_ERROR
\* and has looked up no paper, called no model and deleted no file.
C8_EmptyPaperIdsRejected ==
    (req.kind = "review" /\ req.paper_ids = <<>>) =>
       /\ req.effects = {}
       /\ req.cleanups = <<>>
       /\ req.pc = "done" => req.response = ValidationError("No paper IDs provided")

\* C8 witness: such a request has been answered while files were stored.
C8_Witness ==
    /\ ReviewDone
    /\ req.paper_ids = <<>>
    /\ uploads # {}

ChatDone == req.kind = "chat" /\ req.pc = "done"

ErrorFragment(f) == f.sources = <<>> /\ f.content \in
    {"Error: Uploaded PDF file not found", "Error: ...",
     "Error fetching paper: ...", "Error processing document: ..."}

\* C3: when a stage of chat_with_paper_stream fails, the generator yields
\* exactly one fragment, an error fragment with empty sources, and never
\* raises to the consumer; it ends normally unless the consumer closed it.
C3_ChatFailurePolicy ==
    req.kind = "chat" =>
       /\ req.ended # "raised"
       /\ (req.pc = "done" /\ req.failed # "none") =>
            /\ Len(req.fragments) = 1
            /\ ErrorFragment(req.fragments[1])
            /\ req.ended \in {"normal", "closed"}

\* C3 witness: the copy of an uploaded file that was there at the existence
\* check failed, and the stream has ended normally.
C3_Witness ==
    /\ ChatDone
    /\ req.file_present /\ req.failed = "fetch" /\ req.temp_created
    /\ req.ended = "normal"

\* C4: a chat on 'upload_<hash>' whose file does not exist yields exactly the
\* not-found error fragment with empty sources, creates no temporary file and
\* leaves the uploads directory alone.
C4_ChatMissingUpload ==
    (req.kind = "chat" /\ startswith_upload(req.paper_id) /\ ~req.file_present) =>
       /\ req.fragments = <<Fragment("Error: Uploaded PDF file not found", <<>>)>>
       /\ ~req.temp_created /\ tmp = {}
       /\ req.effects = {}
       /\ req.pc \in {"error_yielded", "finally", "done"}

\* C4 witness: such a chat has ended while another uploaded file was stored.
C4_Witness ==
    /\ ChatDone
    /\ startswith_upload(req.paper_id) /\ ~req.file_present
    /\ uploads # {}

\* C5 (as claimed): once the temporary file has been created, it is gone when
\* the generator is finalized, however it finished (a failing os.unlink set
\* aside).
C5_TempFileRemoved ==
    (ChatDone /\ req.temp_created /\ ~req.unlink_failed) => CHAT_TEMP \notin tmp

\* C9 (as claimed): an operation that resolves an 'upload_' id whose file is
\* absent when it is read ends with a not-found failure: 404 for review
\* generation and _fetch_paper, the not-found error fragment for chat.
C9_DanglingIsNotFound ==
    /\ (ReviewDone /\ req.dangling) => req.response.status_code = 404
    /\ (req.kind = "fetch_paper" /\ req.pc = "done" /\ req.dangling)
          => (req.outcome.kind = "error" /\ req.outcome.status_code = 404)
    /\ (ChatDone /\ req.dangling)
          => req.fragments = <<Fragment("Error: Uploaded PDF file not found", <<>>)>>

UploadDone == req.kind = "upload" /\ req.pc = "done"

\* the three conditions in the words of the claim
ClaimedAcceptable(file) ==
    /\ Len(file.filename) >= 4
    /\ lower(SubSeq(file.filename, Len(file.filename) - 3, Len(file.filename)))
          = <<".", "p", "d", "f">>
    /\ Len(file.content.head) >= 5 /\ SubSeq(file.content.head, 1, 5) = PDF_MAGIC
    /\ file.content.len <= 15 * 1024 * 1024

Oversize(file) ==
    /\ file.filename # <<>> /\ endswith_pdf(lower(file.filename))
    /\ is_valid_pdf(Prefix(file.content, HEAD_READ))
    /\ file.content.len > 15 * 1024 * 1024

AnsweredAsMissing(r, missing) == r.response = missing.response /\ r.db = db

\* the parts of C10 that do not name the status of the cancel response
OwnershipIsolation ==
    /\ \A user \in Users :
         /\ \A t \in db.tasks : t.user_id # user =>
              /\ AnsweredAsMissing(get_task_status(db, user, t.id),
                                   get_task_status(EmptyDb, user, t.id))
              /\ get_task_status(db, user, t.id).response.status_code = 404
              /\ AnsweredAsMissing(cancel_task(db, user, t.id),
                                   cancel_task(EmptyDb, user, t.id))
         /\ \A r \in db.reviews : r.user_id # user =>
              /\ AnsweredAsMissing(delete_review(db, user, r.id),
                                   delete_review(EmptyDb, user, r.id))
              /\ delete_review(db, user, r.id).response.status_code = 404
              /\ \A k \in DOMAIN get_review_history(db, user).response.reviews :
                   get_review_history(db, user).response.reviews[k] # r.id
    /\ (dbreq.op # "none" /\ dbreq.foreign) => ~dbreq.others_changed
    /\ (dbreq.op \in {"get_task_status", "delete_review"} /\ dbreq.foreign)
          => dbreq.response.status_code = 404

C12_CancelOnlyWhileActive ==
    \A user \in Users, task_id \in TaskIds :
         LET mine == {t \in db.tasks : t.id = task_id /\ t.user_id = user}
             r == cancel_task(db, user, task_id)
         IN  (mine = {} \/ \A t \in mine : t.status \in {"completed", "failed"}) =>
                /\ r.response.status_code = 400
                /\ r.response.kind = "error"
                /\ r.db = db

\* C12 witness: a user has asked to cancel their own completed task.
C12_Witness ==
    /\ dbreq.op = "cancel_task" /\ dbreq.response.status_code = 400
    /\ \E t \in db.tasks :
          t.id = dbreq.id /\ t.user_id = dbreq.user /\ t.status = "completed"

AnalysisDone == req.kind = "analysis" /\ req.pc = "done"

\* C13 (as claimed): once every _fetch_paper of the request has succeeded,
\* analyze_paper, compute_key_insights and compute_in_depth return a
\* PaperAnalysis whatever fails later; none of them raises an HTTP error.
C13_FallbackOverFailure ==
    (AnalysisDone /\ req.fetched
       /\ req.op \in {"analyze_paper", "compute_key_insights", "compute_in_depth"})
      => req.result.kind = "PaperAnalysis"

\* with the store unreachable get_cached_review returns None and
\* cache_review returns False, neither raises
CacheDownRedis ==
    (req.kind = "cache" /\ ~req.up) =>
       /\ ~req.raised
       /\ req.op = "get_cached_review" => req.result = None
       /\ req.op = "cache_review" => req.result = FALSE

\* with the store unreachable an analysis request has the outcome it has
\* with an empty cache, and nothing comes out of the cache
CacheDownAnalysis ==
    (AnalysisDone /\ req.cache_down) =>
       /\ ~req.from_cache
       /\ req.result = req.on_miss

\* C14 (as claimed): with the cache store unreachable a read is a miss and a
\* write returns without raising, for every key and value; no caller fails
\* because the cache is down.
C14_CacheDownResilience == CacheDownRedis /\ CacheDownAnalysis

\* the entries of the topic of the request: live ones and expired ones
EntriesOfTopic == {e \in cache : e.key = review_key(req.topic)}

ColonFree(str) == \A i \in 1..Len(str) : str[i] # ":"

ColonFreeVersions(sv, mt) == ColonFree(sv) /\ ColonFree(mt)

SameBytes(f, g) == f.content = g.content /\ f.digest = g.digest

ProcessDone == req.kind = "process_uploaded_pdf" /\ req.pc = "done"

Succeeded(call) == call.outcome.kind = "Paper"

PathOf(call) == SubSeq(call.outcome.id, 2, Len(call.outcome.id))

\* C17: two successful process_uploaded_pdf calls with identical bytes return
\* the same id 'upload_<hash>' and write the same path uploads/<hash>.pdf, so
\* the files stored after the second call are the files stored after the
\* first; each successful call has asked the model for the metadata itself,
\* also when the file was stored already.
C17_UploadIdentity ==
    ProcessDone =>
       /\ Succeeded(req.call) =>
            /\ req.call.outcome.id[1] = UPLOAD_PREFIX
            /\ req.call.outcome.url = <<"/uploads/">> \o PathOf(req.call) \o <<".pdf">>
            /\ req.call.after = req.call.before \cup {PathOf(req.call)}
            /\ req.call.llm_calls = 1
       /\ (Succeeded(req.prev) /\ Succeeded(req.call)
            /\ SameBytes(req.prev.file, req.call.file)) =>
            /\ req.call.outcome.id = req.prev.outcome.id
            /\ req.call.outcome.url = req.prev.outcome.url
            /\ req.call.before = req.prev.after => req.call.after = req.prev.after

\* C17 witness: the same bytes were uploaded twice under two file names, both
\* calls succeeded with two different extracted titles, and the file of the
\* first call was still stored when the second was made.
C17_Witness ==
    /\ ProcessDone
    /\ Succeeded(req.prev) /\ Succeeded(req.call)
    /\ SameBytes(req.prev.file, req.call.file)
    /\ req.prev.file.filename # req.call.file.filename
    /\ req.prev.outcome.title # req.call.outcome.title
    /\ req.call.before = req.prev.after
    /\ req.call.llm_calls = 1

\* the places of a request that hold an id and the same id with a version
VersionedPairs(paper_ids) ==
    {p \in (DOMAIN paper_ids) \X (DOMAIN paper_ids) :
        \E v \in Versions : paper_ids[p[2]] = paper_ids[p[1]] \o <<"v">> \o v}

\* C18: for every arXiv id x and version number v, the base id that
\* get_papers_by_ids computes for x + 'v' + v is the base id it computes
\* for x.
C18_VersionInsensitive ==
    (req.kind = "get_papers_by_ids" /\ req.pc = "done") =>
       \A p \in VersionedPairs(req.paper_ids) :
          req.formatted_ids[p[2]] = req.formatted_ids[p[1]]

\* C18 witness: one call was given an id whose archive name holds a 'v' and
\* the same id with a version, and looked both up under one base id.
C18_Witness ==
    /\ req.kind = "get_papers_by_ids" /\ req.pc = "done"
    /\ \E p \in VersionedPairs(req.paper_ids) :
          /\ \E i \in DOMAIN req.paper_ids[p[1]] : req.paper_ids[p[1]][i] = "v"
          /\ req.formatted_ids[p[2]] = req.formatted_ids[p[1]]
    /\ req.outcome.kind = "papers"

\* C19: when the model call fails while a review is generated, the
\* generate-review endpoint answers with an error response and not with a
\* ReviewResponse whose text is the error placeholder.
C19_ModelFailureSurfaced ==
    (ReviewDone /\ req.model_call = "raises") =>
       /\ req.response.kind # "ReviewResponse"
       /\ req.response.status_code >= 400

AuthDone == req.kind = "auth" /\ req.pc = "done"

\* the key of the token's 'kid' was found and made into a key
KeyFound(r) == r.credentials.header \in JwksKids /\ r.env.jwks = "keys"

\* C20: a failed authentication is a 401; a header without 'kid' gives
\* INVALID_TOKEN, a 'kid' that matches no key of the JWKS gives JWKS_ERROR,
\* an expired token gives TOKEN_EXPIRED, and in none of these cases is a
\* user looked up or created; a user is returned only after header parsing,
\* key lookup, verified decode and claim validation succeeded, in that order.
C20_AuthFailures ==
    AuthDone =>
       /\ req.outcome.kind # "User" =>
            (req.outcome.kind = "error" /\ req.outcome.status_code = 401)
       /\ (req.credentials # NoCredentials /\ req.credentials.header = "no kid") =>
            (req.outcome.code = "INVALID_TOKEN"
               /\ ~req.user_lookup /\ ~req.users_changed)
       /\ (req.credentials # NoCredentials /\ req.env.jwks = "keys"
             /\ req.credentials.header \in {"k1", "k2"} \ JwksKids) =>
            (req.outcome.code = "JWKS_ERROR"
               /\ ~req.user_lookup /\ ~req.users_changed)
       /\ (req.credentials # NoCredentials /\ KeyFound(req)
             /\ req.credentials.decode = "ExpiredSignatureError") =>
            (req.outcome.code = "TOKEN_EXPIRED"
               /\ ~req.user_lookup /\ ~req.users_changed)
       /\ req.user_lookup =>
            SubSeq(req.steps, 1, 4) = <<"header", "key", "decode", "claims">>
       /\ req.outcome.kind = "User" =>
            /\ req.steps = <<"header", "key", "decode", "claims", "user">>
            /\ KeyFound(req)
            /\ req.credentials.decode = "payload"
            /\ claims_valid(req.credentials.payload)
            /\ req.outcome.clerk_id = req.credentials.payload.sub

\* C20 witness: with one user already in the table, a token that was
\* expired was refused with TOKEN_EXPIRED and no user was looked up.
C20_Witness ==
    /\ AuthDone
    /\ db.users # {}
    /\ KeyFound(req)
    /\ req.credentials.decode = "ExpiredSignatureError"
    /\ req.outcome.code = "TOKEN_EXPIRED" /\ req.outcome.status_code = 401
    /\ ~req.user_lookup

ValidateDone == req.kind = "validate_token_claims" /\ req.pc = "done"

\* the claims of a payload that are absent, read off the payload
AbsentClaims(payload) ==
    {c \in {"sub", "exp", "iat"} :
        \/ c = "sub" /\ payload.sub = "absent"
        \/ c = "exp" /\ ~payload.exp
        \/ c = "iat" /\ ~payload.iat}

\* C21: validate_token_claims accepts a payload exactly when it holds sub,
\* exp and iat; otherwise it raises 401 INVALID_TOKEN and the message names
\* the missing claims, all of them and no other.
C21_ValidateTokenClaims ==
    ValidateDone =>
       /\ ~req.result.raised <=> AbsentClaims(req.payload) = {}
       /\ req.result.raised =>
            /\ req.result.outcome.status_code = 401
            /\ req.result.outcome.code = "INVALID_TOKEN"
            /\ Range(req.result.outcome.message) \cap {"sub", "exp", "iat"}
                  = AbsentClaims(req.payload)

\* C21 witness: a payload that lacks two of the claims was refused.
C21_Witness ==
    /\ ValidateDone
    /\ req.result.raised
    /\ Cardinality(AbsentClaims(req.payload)) = 2

\* the contents of the fragments, one after the other
RECURSIVE Concatenated(_)
Concatenated(fragments) ==
    IF fragments = <<>> THEN <<>>
    ELSE Head(fragments).content \o Concatenated(Tail(fragments))

\* C22: for every answer of the model, each fragment that
\* chat_with_paper_stream yields holds at most 100 characters, the contents
\* in the order of the yields make up the answer, and the source pages are
\* on the first fragment only, every later one having empty sources.
C22_Rechunking ==
    (req.kind = "chat" /\ req.failed = "none") =>
       /\ \A k \in DOMAIN req.fragments :
            /\ Len(req.fragments[k].content) <= 100
            /\ req.fragments[k].sources = IF k = 1 THEN SourcePages ELSE <<>>
       /\ Concatenated(req.fragments)
             = SubSeq(req.answer, 1, Len(Concatenated(req.fragments)))
       /\ (req.pc = "done" /\ req.ended = "normal") =>
             Concatenated(req.fragments) = req.answer

\* C22 witness: an answer of 201 characters was streamed to its end in
\* three fragments.
C22_Witness ==
    /\ ChatDone /\ req.failed = "none" /\ req.ended = "normal"
    /\ Len(req.answer) = 201
    /\ Len(req.fragments) = 3

\* a chat request on an uploaded paper whose file an earlier chat has
\* consumed (a stream enters `consumed` when it is done)
ChatOnConsumed ==
    /\ req.kind = "chat" /\ startswith_upload(req.paper_id)
    /\ req.pc # "done" \/ req.uploaded_file_path = "None"
    /\ content_hash_of(req.paper_id) \in consumed

NotFoundOnly == <<Fragment("Error: Uploaded PDF file not found", <<>>)>>

\* a chat stream that had taken up an uploaded file finishes
ChatFinishes ==
    /\ req.kind = "chat" /\ req.pc = "finally" /\ req'.pc = "done"
    /\ req.uploaded_file_path # "None"

StoredAnalysis(c, paper_id) ==
    cache_get(c, _get_cache_key(settings, paper_hash_of(paper_id), "analysis").key, now)

CacheKeys(c) == {e.key : e \in c}

\* compute_key_insights ends with its analysis, the cache reachable
KeyInsightsSucceeds ==
    /\ req'.kind = "analysis" /\ req'.op = "compute_key_insights"
    /\ req'.result.kind = "PaperAnalysis" /\ req'.cache_up

WritersDone ==
    /\ req.kind = "writers"
    /\ \A op \in WriterOps : req.at[op] = "done"

Digits == {"1", "2"}

\* the places of an id at which a version suffix starts: a 'v' followed by
\* digits only, up to the end
SuffixStarts(r) ==
    {k \in 1..(Len(r) - 1) :
        r[k] = "v" /\ \A j \in (k + 1)..Len(r) : r[j] \in Digits}

\* the id without its version suffix
WithoutSuffix(r) ==
    IF SuffixStarts(r) = {} THEN r
    ELSE SubSeq(r, 1, (CHOOSE k \in SuffixStarts(r) : TRUE) - 1)

\* C26: the base id computed for a raw arXiv id is the id with only a
\* trailing version suffix removed: x for x + 'v' + digits, and the id
\* itself, unchanged, when it carries no version suffix.
C26_OnlySuffixRemoved ==
    (req.kind = "get_papers_by_ids" /\ req.pc = "done") =>
       \A i \in DOMAIN req.paper_ids :
          req.formatted_ids[i] = WithoutSuffix(req.paper_ids[i])

\* C27: after a cleanup_uploaded_pdfs call has returned, every existing
\* file of an upload id of the call whose own removal did not fail is gone,
\* whether or not the removal of the file of another id failed.
C27_FailureDoesNotStopOthers ==
    (req.kind = "cleanup_uploaded_pdfs" /\ req.pc = "done") =>
       \A i \in DOMAIN req.paper_ids :
          (/\ startswith_upload(req.paper_ids[i])
           /\ content_hash_of(req.paper_ids[i]) \in req.before
           /\ content_hash_of(req.paper_ids[i]) \notin req.fail)
             => content_hash_of(req.paper_ids[i]) \notin req.after

\* the signature of a token verifies under no configured algorithm and key:
\* not under HS256 with the secret key, and not under RS256 with the JWKS
\* key of its 'kid'
SignatureFails(token) ==
    /\ ~token.hs256
    /\ token.header \notin JwksKids \/ token.decode = "InvalidTokenError"

\* C28: whichever get_current_user a route depends on, a token whose
\* signature verifies under no configured algorithm and key is rejected with
\* 401, and no user is returned, looked up or created for it.
C28_OnlyVerifiedTokens ==
    (/\ req.kind \in {"auth", "users_auth", "deps_auth"}
     /\ "hs256" \in DOMAIN req.credentials
     /\ SignatureFails(req.credentials))
       => /\ req.outcome.status_code = 401
          /\ ~req.user_lookup /\ ~req.users_changed

\* a key set is cached and less than 3600 s have passed since it was fetched
FreshBefore ==
    /\ req.before.jwks \in KeySets
    /\ req.before.last_updated # NoTime
    /\ req.at - req.before.last_updated < 3600

\* C29: get_jwks returns the cached key set without fetching exactly when a
\* key set is cached and less than 3600 s have passed since the last
\* successful fetch; otherwise it fetches: a successful fetch replaces the
\* cached key set and sets last_updated to the time of the call, a failed
\* one raises and leaves both unchanged.  No key set older than 3600 s is
\* returned.
C29_JwksFreshness ==
    req.kind = "get_jwks" =>
       /\ FreshBefore <=> ~req.fetched
       /\ FreshBefore =>
            /\ req.outcome.kind = "jwks" /\ req.outcome.jwks = req.before.jwks
            /\ req.after = req.before
       /\ (~FreshBefore /\ req.fetch # "RequestException") =>
            /\ req.outcome.kind = "jwks" /\ req.outcome.jwks = req.fetch
            /\ req.after = [jwks |-> req.fetch, last_updated |-> req.at]
       /\ (~FreshBefore /\ req.fetch = "RequestException") =>
            /\ req.outcome.kind = "error"
            /\ req.after = req.before
       /\ req.outcome.kind = "jwks" =>
            /\ req.after.jwks = req.outcome.jwks
            /\ req.after.last_updated # NoTime
            /\ req.at - req.after.last_updated < 3600
       /\ jwks_cache = req.after

\* C29 witness: a call made exactly 3600 s after the fetch of the cached key
\* set fetched another key set and stored it with the time of the call.
C29_Witness ==
    /\ req.kind = "get_jwks"
    /\ req.before.jwks = "keys 1"
    /\ req.at - req.before.last_updated = 3600
    /\ req.fetched /\ req.outcome.kind = "jwks" /\ req.outcome.jwks = "keys 2"
    /\ jwks_cache = [jwks |-> "keys 2", last_updated |-> req.at]

\* the calls that have ended
EndedCalls == {p \in ServerProcesses : UserCalls[p].pc \in {"returned", "raised"}}

\* C30: whatever the interleaving of the get_or_create_user calls with one
\* clerk_id, every call returns, without raising, the one row of that
\* clerk_id, which exists exactly once; a call whose data are those of the
\* row it finds creates no row and changes nothing.
C30_UniqueUserRows ==
    /\ \A u, v \in db.users : u.clerk_id = v.clerk_id => u = v
    /\ \A p \in EndedCalls :
          LET call == UserCalls[p]
          IN  /\ call.pc = "returned"
              /\ call.result.clerk_id = call.clerk_id
              /\ \E u \in db.users : u.clerk_id = call.clerk_id
              /\ (/\ call.user # NoUser /\ call.user.email = call.email
                  /\ call.first_name \in {"", call.user.first_name})
                    => ~call.changed

=============================================================================
